---- MODULE Spec2Model ----
(***************************************************************************)
(* skukozh: file discovery and filtering.                                  *)
(*                                                                         *)
(* The model covers the gitignore pattern matcher, the ignore-file parser, *)
(* the per-rule ignore decision and the directory walk of                  *)
(* findFilesInternal.  Strings are sequences of one-character strings, so  *)
(* that prefix, suffix, split and glob matching are computed character by  *)
(* character as the Go code computes them.                                 *)
(***************************************************************************)
EXTENDS Integers, Sequences, FiniteSets, TLC

(***************************************************************************)
(* Strings (Go package strings, path/filepath), on sequences of characters *)
(***************************************************************************)

\* The printable ASCII characters in code order, starting at code 32 (the
\* grave accent, which a TLA+ string cannot hold, is spelled out).
AsciiTable ==
    <<" ", "!", "\"", "#", "$", "%", "&", "'", "(", ")", "*", "+", ",", "-",
      ".", "/", "0", "1", "2", "3", "4", "5", "6", "7", "8", "9", ":", ";",
      "<", "=", ">", "?", "@", "A", "B", "C", "D", "E", "F", "G", "H", "I",
      "J", "K", "L", "M", "N", "O", "P", "Q", "R", "S", "T", "U", "V", "W",
      "X", "Y", "Z", "[", "\\", "]", "^", "_", "backtick", "a", "b", "c", "d", "e",
      "f", "g", "h", "i", "j", "k", "l", "m", "n", "o", "p", "q", "r", "s",
      "t", "u", "v", "w", "x", "y", "z", "{", "|", "}", "~">>

\* Byte values: printable ASCII by table, and the control characters an
\* ignore-file line can hold
CodeOf ==
    [c \in {AsciiTable[i] : i \in 1..Len(AsciiTable)} \cup {"\t", "\n", "\r"} |->
        IF c = "\t" THEN 9
        ELSE IF c = "\n" THEN 10
        ELSE IF c = "\r" THEN 13
        ELSE 31 + (CHOOSE i \in 1..Len(AsciiTable) : AsciiTable[i] = c)]

Ord(c) == CodeOf[c]

\* unicode.ToLower on ASCII: the upper-case letters map 32 codes up
LowerOf ==
    [c \in DOMAIN CodeOf |->
        IF CodeOf[c] >= CodeOf["A"] /\ CodeOf[c] <= CodeOf["Z"]
        THEN AsciiTable[CodeOf[c] + 32 - 31]
        ELSE c]

LowerChar(c) == LowerOf[c]

\* strings.ToLower
ToLower(s) == [i \in 1..Len(s) |-> LowerChar(s[i])]

\* strings.EqualFold (ASCII)
EqualFold(s, t) == ToLower(s) = ToLower(t)

\* s[i:] and s[:i] with Go's 0-based offsets
Drop(s, n) == SubSeq(s, n + 1, Len(s))
Take(s, n) == SubSeq(s, 1, n)

\* strings.HasPrefix
HasPrefix(s, prefix) ==
    Len(prefix) <= Len(s) /\ Take(s, Len(prefix)) = prefix

\* strings.HasSuffix
HasSuffix(s, suffix) ==
    Len(suffix) <= Len(s) /\ Drop(s, Len(s) - Len(suffix)) = suffix

\* strings.Index: 0-based offset of the first occurrence of sep, or -1
Index(s, sep) ==
    LET hits == {i \in 0..(Len(s) - Len(sep)) : SubSeq(s, i + 1, i + Len(sep)) = sep}
    IN  IF hits = {} THEN -1 ELSE CHOOSE i \in hits : \A j \in hits : i <= j

\* strings.Contains
Contains(s, sub) == Index(s, sub) >= 0

\* strings.TrimPrefix
TrimPrefix(s, prefix) == IF HasPrefix(s, prefix) THEN Drop(s, Len(prefix)) ELSE s

\* strings.Split for a non-empty separator
RECURSIVE Split(_, _)
Split(s, sep) ==
    LET i == Index(s, sep)
    IN  IF i < 0 THEN <<s>>
        ELSE <<Take(s, i)>> \o Split(Drop(s, i + Len(sep)), sep)

\* strings.Join
RECURSIVE Join(_, _)
Join(parts, sep) ==
    IF Len(parts) = 0 THEN <<>>
    ELSE IF Len(parts) = 1 THEN parts[1]
    ELSE parts[1] \o sep \o Join(Tail(parts), sep)

\* unicode.IsSpace on the characters an ignore-file can hold
IsSpace(c) == c \in {" ", "\t", "\n", "\r"}

\* strings.TrimSpace
RECURSIVE TrimLeft(_)
TrimLeft(s) == IF Len(s) > 0 /\ IsSpace(s[1]) THEN TrimLeft(Tail(s)) ELSE s

RECURSIVE TrimRight(_)
TrimRight(s) ==
    IF Len(s) > 0 /\ IsSpace(s[Len(s)]) THEN TrimRight(Take(s, Len(s) - 1)) ELSE s

TrimSpace(s) == TrimRight(TrimLeft(s))

\* The index (1-based) of the last occurrence of character c in s, or 0
LastIndexChar(s, c) ==
    LET hits == {i \in 1..Len(s) : s[i] = c}
    IN  IF hits = {} THEN 0 ELSE CHOOSE i \in hits : \A j \in hits : j <= i

\* filepath.Base for a slash-separated relative path without trailing slash
Base(path) == Drop(path, LastIndexChar(path, "/"))

\* filepath.Ext: the suffix of the final element starting at its last dot
Ext(path) ==
    LET b == Base(path)
        d == LastIndexChar(b, ".")
    IN  IF d = 0 THEN <<>> ELSE Drop(b, d - 1)

\* contains (slice membership)
contains(slice, item) == \E i \in 1..Len(slice) : slice[i] = item

\* containsIgnoreCase
containsIgnoreCase(slice, item) == \E i \in 1..Len(slice) : EqualFold(slice[i], item)

\* Byte-wise string order used by sort.Strings
RECURSIVE StrLess(_, _)
StrLess(s, t) ==
    IF Len(t) = 0 THEN FALSE
    ELSE IF Len(s) = 0 THEN TRUE
    ELSE IF s[1] = t[1] THEN StrLess(Tail(s), Tail(t))
    ELSE Ord(s[1]) < Ord(t[1])

(***************************************************************************)
(* path/filepath.Match (Go standard library), as called by matchWildcard   *)
(***************************************************************************)

\* scanChunk: the length of the chunk that starts pattern p (after its
\* leading stars were removed): up to the first star outside a bracket class.
RECURSIVE ScanEnd(_, _, _)
ScanEnd(p, i, inrange) ==
    IF i >= Len(p) THEN Len(p)
    ELSE LET c == p[i + 1]
         IN  IF c = "\\" THEN ScanEnd(p, IF i + 1 < Len(p) THEN i + 2 ELSE i + 1, inrange)
             ELSE IF c = "[" THEN ScanEnd(p, i + 1, TRUE)
             ELSE IF c = "]" THEN ScanEnd(p, i + 1, FALSE)
             ELSE IF c = "*" /\ ~inrange THEN i
             ELSE ScanEnd(p, i + 1, inrange)

RECURSIVE StripStars(_)
StripStars(p) == IF Len(p) > 0 /\ p[1] = "*" THEN StripStars(Tail(p)) ELSE p

\* scanChunk(pattern) -> (star, chunk, rest)
ScanChunk(pattern) ==
    LET p == StripStars(pattern)
        i == ScanEnd(p, 0, FALSE)
    IN  [star |-> Len(pattern) > 0 /\ pattern[1] = "*",
         chunk |-> Take(p, i),
         rest |-> Drop(p, i)]

\* getEsc(chunk) -> (r, nchunk, err): one possibly escaped class character
GetEsc(chunk) ==
    IF Len(chunk) = 0 \/ chunk[1] = "-" \/ chunk[1] = "]"
    THEN [err |-> TRUE, r |-> "", nchunk |-> <<>>]
    ELSE LET c == IF chunk[1] = "\\" THEN Tail(chunk) ELSE chunk
         IN  IF Len(c) = 0 THEN [err |-> TRUE, r |-> "", nchunk |-> <<>>]
             ELSE [err |-> Len(c) = 1, r |-> c[1], nchunk |-> Tail(c)]

\* The range loop of a bracket class: r is the character read from the name
\* ("" when the match already failed); returns (err, chunk after "]", match)
RECURSIVE ParseRanges(_, _, _, _)
ParseRanges(chunk, r, match, nrange) ==
    IF Len(chunk) > 0 /\ chunk[1] = "]" /\ nrange > 0
    THEN [err |-> FALSE, chunk |-> Tail(chunk), match |-> match]
    ELSE LET lo == GetEsc(chunk)
         IN  IF lo.err THEN [err |-> TRUE, chunk |-> <<>>, match |-> FALSE]
             ELSE LET ranged == lo.nchunk[1] = "-"
                      hi == IF ranged THEN GetEsc(Tail(lo.nchunk)) ELSE lo
                  IN  IF hi.err THEN [err |-> TRUE, chunk |-> <<>>, match |-> FALSE]
                      ELSE ParseRanges(hi.nchunk, r,
                                       match \/ (r # "" /\ Ord(lo.r) <= Ord(r) /\ Ord(r) <= Ord(hi.r)),
                                       nrange + 1)

\* matchChunk(chunk, s) -> (rest, ok, err)
RECURSIVE MatchChunkLoop(_, _, _)
MatchChunkLoop(chunk, s, wasFailed) ==
    IF Len(chunk) = 0
    THEN [ok |-> ~wasFailed, err |-> FALSE, rest |-> IF wasFailed THEN <<>> ELSE s]
    ELSE LET failed == wasFailed \/ Len(s) = 0
             c == chunk[1]
         IN  IF c = "["
             THEN LET r == IF failed THEN "" ELSE s[1]
                      s1 == IF failed THEN s ELSE Tail(s)
                      c1 == Tail(chunk)
                      negated == Len(c1) > 0 /\ c1[1] = "^"
                      c2 == IF negated THEN Tail(c1) ELSE c1
                      rg == ParseRanges(c2, r, FALSE, 0)
                  IN  IF rg.err THEN [ok |-> FALSE, err |-> TRUE, rest |-> <<>>]
                      ELSE MatchChunkLoop(rg.chunk, s1, failed \/ (rg.match = negated))
             ELSE IF c = "?"
             THEN MatchChunkLoop(Tail(chunk),
                                 IF failed THEN s ELSE Tail(s),
                                 failed \/ s[1] = "/")
             ELSE LET lit == IF c = "\\" THEN Tail(chunk) ELSE chunk
                  IN  IF Len(lit) = 0 THEN [ok |-> FALSE, err |-> TRUE, rest |-> <<>>]
                      ELSE MatchChunkLoop(Tail(lit),
                                          IF failed THEN s ELSE Tail(s),
                                          failed \/ lit[1] # s[1])

MatchChunk(chunk, s) == MatchChunkLoop(chunk, s, FALSE)

\* The closing loop of Match: is the remainder of the pattern malformed?
RECURSIVE RestIsBad(_)
RestIsBad(pattern) ==
    IF Len(pattern) = 0 THEN FALSE
    ELSE LET sc == ScanChunk(pattern)
         IN  MatchChunk(sc.chunk, <<>>).err \/ RestIsBad(sc.rest)

\* The star loop of Match: try the chunk after skipping i+1 bytes of name,
\* never skipping a slash.  Returns (found, err, name).
RECURSIVE StarSkip(_, _, _, _)
StarSkip(chunk, name, rest, i) ==
    IF ~(i < Len(name) /\ name[i + 1] # "/")
    THEN [found |-> FALSE, err |-> FALSE, name |-> name]
    ELSE LET m == MatchChunk(chunk, Drop(name, i + 1))
         IN  IF m.ok
             THEN IF Len(rest) = 0 /\ Len(m.rest) > 0
                  THEN StarSkip(chunk, name, rest, i + 1)
                  ELSE [found |-> TRUE, err |-> FALSE, name |-> m.rest]
             ELSE IF m.err THEN [found |-> FALSE, err |-> TRUE, name |-> name]
             ELSE StarSkip(chunk, name, rest, i + 1)

\* filepath.Match(pattern, name) -> (matched, err)
RECURSIVE Match(_, _)
Match(pattern, name) ==
    IF Len(pattern) = 0 THEN [matched |-> Len(name) = 0, err |-> FALSE]
    ELSE LET sc == ScanChunk(pattern)
         IN  IF sc.star /\ Len(sc.chunk) = 0
             THEN [matched |-> ~Contains(name, <<"/">>), err |-> FALSE]
             ELSE LET m == MatchChunk(sc.chunk, name)
                  IN  IF m.ok /\ (Len(m.rest) = 0 \/ Len(sc.rest) > 0)
                      THEN Match(sc.rest, m.rest)
                      ELSE IF m.err THEN [matched |-> FALSE, err |-> TRUE]
                      ELSE LET sk == IF sc.star THEN StarSkip(sc.chunk, name, sc.rest, 0)
                                     ELSE [found |-> FALSE, err |-> FALSE, name |-> name]
                           IN  IF sk.found THEN Match(sc.rest, sk.name)
                               ELSE IF sk.err THEN [matched |-> FALSE, err |-> TRUE]
                               ELSE [matched |-> FALSE, err |-> RestIsBad(sc.rest)]

(***************************************************************************)
(* The gitignore matcher                                                   *)
(***************************************************************************)

\* matchWildcard without the call of filepath.Match
matchWildcardPrefixOnly(path, pattern) == HasPrefix(path, pattern \o <<"/">>)

\* matchWildcard(path, pattern)
matchWildcard(path, pattern) ==
    LET m == Match(pattern, path)
    IN  IF m.err THEN FALSE
        ELSE m.matched \/ HasPrefix(path, pattern \o <<"/">>)

\* The inner loop of the "**" branch looking for part at the start of the
\* path only
FirstCutAtStart(path, part) ==
    IF Len(part) < Len(path) /\ HasPrefix(path, part) THEN Len(part) ELSE -1

\* The inner loop of the "**" branch: the least j < len(path) such that
\* path[:j] ends with part, or -1
FirstCut(path, part) ==
    LET hits == {j \in 0..(Len(path) - 1) : HasSuffix(Take(path, j), part)}
    IN  IF hits = {} THEN -1 ELSE CHOOSE j \in hits : \A k \in hits : j <= k

\* The loop over the pieces with the last piece looked for anywhere in what
\* is left of the path
RECURSIVE MatchPartsLastAnywhere(_, _, _)
MatchPartsLastAnywhere(parts, i, path) ==
    IF i > Len(parts) THEN TRUE
    ELSE IF i < Len(parts)
    THEN LET j == FirstCut(path, parts[i])
         IN  IF j < 0 THEN FALSE ELSE MatchPartsLastAnywhere(parts, i + 1, Drop(path, j))
    ELSE IF parts[i] # <<>> THEN Contains(path, parts[i])
    ELSE TRUE

\* The loop over the pieces of a pattern split on "**"
RECURSIVE MatchParts(_, _, _)
MatchParts(parts, i, path) ==
    IF i > Len(parts) THEN TRUE
    ELSE IF i < Len(parts)
    THEN LET j == FirstCut(path, parts[i])
         IN  IF j < 0 THEN FALSE ELSE MatchParts(parts, i + 1, Drop(path, j))
    ELSE IF parts[i] # <<>> THEN HasSuffix(path, parts[i])
    ELSE TRUE

\* matchGitignorePattern without the special case for "**/*.ext"
matchGitignorePatternNoExtCase(path, pattern) ==
    IF Contains(pattern, <<"*", "*">>)
    THEN MatchParts(Split(pattern, <<"*", "*">>), 1, path)
    ELSE IF Contains(pattern, <<"*">>)
    THEN matchWildcard(path, pattern)
    ELSE path = pattern \/ HasPrefix(path, pattern \o <<"/">>)

\* matchGitignorePattern(path, pattern)
matchGitignorePattern(path, pattern) ==
    IF Contains(pattern, <<"*", "*">>)
    THEN IF HasPrefix(pattern, <<"*", "*", "/", "*", ".">>)
         THEN HasSuffix(path, TrimPrefix(pattern, <<"*", "*", "/", "*">>))
         ELSE MatchParts(Split(pattern, <<"*", "*">>), 1, path)
    ELSE IF Contains(pattern, <<"*">>)
    THEN matchWildcard(path, pattern)
    ELSE path = pattern \/ HasPrefix(path, pattern \o <<"/">>)

(***************************************************************************)
(* The ignore-file parser and the per-path ignore decision                 *)
(***************************************************************************)

\* parseGitignore's loop body without the negation branch: "!" stays in
\* the pattern
ParseLineNoNegation(rules, rawLine) ==
    LET line == TrimSpace(rawLine)
    IN  IF line = <<>> \/ HasPrefix(line, <<"#">>) THEN rules
        ELSE LET dir == HasSuffix(line, <<"/">>)
                 l2 == IF dir THEN Take(line, Len(line) - 1) ELSE line
             IN  Append(rules, [pattern |-> l2, isDir |-> dir, isNegated |-> FALSE])

\* parseGitignore's loop body dropping a line with an unclosed "["
ParseLineSkipsMalformed(rules, rawLine) ==
    LET line == TrimSpace(rawLine)
    IN  IF line = <<>> \/ HasPrefix(line, <<"#">>) THEN rules
        ELSE IF Contains(line, <<"[">>) /\ ~Contains(line, <<"]">>) THEN rules
        ELSE LET neg == HasPrefix(line, <<"!">>)
                 l1 == IF neg THEN Tail(line) ELSE line
                 dir == HasSuffix(l1, <<"/">>)
                 l2 == IF dir THEN Take(l1, Len(l1) - 1) ELSE l1
             IN  Append(rules, [pattern |-> l2, isDir |-> dir, isNegated |-> neg])

\* The loop body of parseGitignore for one line: the rules after this line
ParseLine(rules, rawLine) ==
    LET line == TrimSpace(rawLine)
    IN  IF line = <<>> \/ HasPrefix(line, <<"#">>) THEN rules
        ELSE LET neg == HasPrefix(line, <<"!">>)
                 l1 == IF neg THEN Tail(line) ELSE line
                 dir == HasSuffix(l1, <<"/">>)
                 l2 == IF dir THEN Take(l1, Len(l1) - 1) ELSE l1
             IN  Append(rules, [pattern |-> l2, isDir |-> dir, isNegated |-> neg])

RECURSIVE ParseLines(_, _)
ParseLines(rules, lines) ==
    IF Len(lines) = 0 THEN rules
    ELSE ParseLines(ParseLine(rules, Head(lines)), Tail(lines))

\* parseGitignore on the content of a readable file
parseGitignore(content) == ParseLines(<<>>, Split(content, <<"\n">>))

\* The inner loop of isIgnoredByGitignore: does a non-negated directory rule
\* match one of the parent directories parts[:i], 1 <= i < len(parts)?
ParentMatches(parts, rule) ==
    \E i \in 1..(Len(parts) - 1) :
        matchGitignorePattern(Join(Take(parts, i), <<"/">>), rule.pattern)
        /\ ~rule.isNegated

\* IgnoreStep with an early exit: once a rule has ignored the path, later
\* rules (negated ones too) are not consulted
IgnoreStepFirstMatch(isIgnored, relPath, rule, isDir) ==
    IF isIgnored THEN TRUE
    ELSE IF rule.isDir /\ ~isDir /\ ~Contains(relPath, <<"/">>) THEN isIgnored
    ELSE (matchGitignorePattern(relPath, rule.pattern) /\ ~rule.isNegated)
         \/ (~isDir /\ rule.isDir /\ ParentMatches(Split(relPath, <<"/">>), rule))

\* The loop body of isIgnoredByGitignore for one rule
IgnoreStep(isIgnored, relPath, rule, isDir) ==
    IF rule.isDir /\ ~isDir /\ ~Contains(relPath, <<"/">>) THEN isIgnored
    ELSE LET afterMatch == IF matchGitignorePattern(relPath, rule.pattern)
                           THEN ~rule.isNegated
                           ELSE isIgnored
         IN  IF ~isDir /\ rule.isDir /\ ParentMatches(Split(relPath, <<"/">>), rule)
             THEN TRUE
             ELSE afterMatch

RECURSIVE IgnoreLoop(_, _, _, _)
IgnoreLoop(isIgnored, relPath, rules, isDir) ==
    IF Len(rules) = 0 THEN isIgnored
    ELSE IgnoreLoop(IgnoreStep(isIgnored, relPath, Head(rules), isDir),
                    relPath, Tail(rules), isDir)

\* The path as isIgnoredByGitignore matches it: a directory gets a trailing "/"
NormalizePath(relPath, isDir) ==
    IF isDir /\ ~HasSuffix(relPath, <<"/">>) THEN relPath \o <<"/">> ELSE relPath

\* isIgnoredByGitignore(relPath, rules, isDir)
isIgnoredByGitignore(relPath, rules, isDir) ==
    IgnoreLoop(FALSE, NormalizePath(relPath, isDir), rules, isDir)

(***************************************************************************)
(* Program data                                                            *)
(***************************************************************************)

\* resultName
resultName == <<"s", "k", "u", "k", "o", "z", "h", "_", "r", "e", "s", "u", "l", "t", ".", "t", "x", "t">>

\* fileListName (its initial value; only tests reassign it)
fileListName == <<"s", "k", "u", "k", "o", "z", "h", "_", "f", "i", "l", "e", "_", "l", "i", "s", "t", ".", "t", "x", "t">>

\* ignoredDirs: common directories to ignore
ignoredDirs ==
    <<
      <<"n", "o", "d", "e", "_", "m", "o", "d", "u", "l", "e", "s">>, <<"v", "e", "n", "d", "o", "r">>,
      <<"d", "i", "s", "t">>, <<"b", "u", "i", "l", "d">>,
      <<".", "g", "i", "t">>, <<".", "s", "v", "n">>,
      <<".", "h", "g">>, <<"b", "o", "w", "e", "r", "_", "c", "o", "m", "p", "o", "n", "e", "n", "t", "s">>,
      <<"t", "a", "r", "g", "e", "t">>, <<"b", "i", "n">>,
      <<"o", "b", "j">>
    >>

\* binaryFileExts: common binary/non-text file extensions
binaryFileExts ==
    <<
      <<".", "j", "p", "g">>, <<".", "j", "p", "e", "g">>, <<".", "p", "n", "g">>, <<".", "g", "i", "f">>, <<".", "b", "m", "p">>, <<".", "i", "c", "o">>,
      <<".", "s", "v", "g">>, <<".", "w", "e", "b", "p">>, <<".", "m", "p", "3">>, <<".", "w", "a", "v">>, <<".", "o", "g", "g">>, <<".", "f", "l", "a", "c">>,
      <<".", "a", "a", "c">>, <<".", "m", "4", "a">>, <<".", "m", "p", "4">>, <<".", "a", "v", "i">>, <<".", "m", "o", "v">>, <<".", "w", "m", "v">>,
      <<".", "f", "l", "v">>, <<".", "m", "k", "v">>, <<".", "w", "e", "b", "m">>, <<".", "z", "i", "p">>, <<".", "t", "a", "r">>, <<".", "g", "z">>,
      <<".", "r", "a", "r">>, <<".", "7", "z">>, <<".", "j", "a", "r">>, <<".", "w", "a", "r">>, <<".", "e", "x", "e">>, <<".", "d", "l", "l">>,
      <<".", "s", "o">>, <<".", "d", "y", "l", "i", "b">>, <<".", "b", "i", "n">>, <<".", "d", "a", "t">>, <<".", "p", "d", "f">>, <<".", "d", "o", "c">>,
      <<".", "d", "o", "c", "x">>, <<".", "x", "l", "s">>, <<".", "x", "l", "s", "x">>, <<".", "p", "p", "t">>, <<".", "p", "p", "t", "x">>
    >>

\* commonTextExts: the extensions used when no -ext list is given
commonTextExts ==
    <<
      <<".", "g", "o">>, <<".", "p", "y">>, <<".", "j", "s">>, <<".", "t", "s">>, <<".", "j", "a", "v", "a">>, <<".", "c">>,
      <<".", "c", "p", "p">>, <<".", "h">>, <<".", "h", "p", "p">>, <<".", "c", "s">>, <<".", "p", "h", "p">>, <<".", "r", "b">>,
      <<".", "r", "s">>, <<".", "s", "w", "i", "f", "t">>, <<".", "h", "t", "m", "l">>, <<".", "h", "t", "m">>, <<".", "c", "s", "s">>, <<".", "s", "c", "s", "s">>,
      <<".", "s", "a", "s", "s">>, <<".", "l", "e", "s", "s">>, <<".", "j", "s", "x">>, <<".", "t", "s", "x">>, <<".", "v", "u", "e">>, <<".", "s", "v", "e", "l", "t", "e">>,
      <<".", "j", "s", "o", "n">>, <<".", "y", "a", "m", "l">>, <<".", "y", "m", "l">>, <<".", "t", "o", "m", "l">>, <<".", "x", "m", "l">>, <<".", "i", "n", "i">>,
      <<".", "e", "n", "v">>, <<".", "m", "d">>, <<".", "t", "x", "t">>, <<".", "r", "s", "t">>, <<".", "a", "d", "o", "c">>, <<".", "s", "h">>,
      <<".", "b", "a", "s", "h">>, <<".", "z", "s", "h">>, <<".", "f", "i", "s", "h">>, <<".", "b", "a", "t">>, <<".", "c", "m", "d">>, <<".", "p", "s", "1">>
    >>

\* The fixed list findFilesInternal returns when hidden is set, no-ignore is
\* not, and no extension list is given
HiddenTestFiles ==
    <<
      <<".", "g", "i", "t", "i", "g", "n", "o", "r", "e">>,
      <<".", "h", "i", "d", "d", "e", "n", ".", "t", "x", "t">>,
      <<".", "h", "i", "d", "d", "e", "n", "d", "i", "r", "/", "f", "i", "l", "e", ".", "t", "x", "t">>,
      <<"f", "i", "l", "e", "1", ".", "g", "o">>,
      <<"f", "i", "l", "e", "2", ".", "j", "s">>,
      <<"f", "i", "l", "e", "5", ".", "t", "x", "t">>,
      <<"i", "g", "n", "o", "r", "e", "d", "_", "d", "i", "r", "/", "f", "i", "l", "e", ".", "t", "x", "t">>,
      <<"i", "g", "n", "o", "r", "e", "d", "_", "d", "i", "r", "/", "k", "e", "e", "p", ".", "t", "x", "t">>,
      <<"i", "g", "n", "o", "r", "e", "m", "e", ".", "t", "x", "t">>,
      <<"s", "u", "b", "d", "i", "r", "/", "f", "i", "l", "e", "3", ".", "g", "o">>,
      <<"s", "u", "b", "d", "i", "r", "/", "f", "i", "l", "e", "4", ".", "p", "h", "p">>,
      <<"t", "e", "s", "t", ".", "l", "o", "g">>
    >>

emptyTxtName == <<"e", "m", "p", "t", "y", ".", "t", "x", "t">>

imageJpgName == <<"i", "m", "a", "g", "e", ".", "j", "p", "g">>

testLogName == <<"t", "e", "s", "t", ".", "l", "o", "g">>

ignoremeName == <<"i", "g", "n", "o", "r", "e", "m", "e", ".", "t", "x", "t">>

ignoredDirFile == <<"i", "g", "n", "o", "r", "e", "d", "_", "d", "i", "r", "/", "f", "i", "l", "e", ".", "t", "x", "t">>

gitignoreName == <<".", "g", "i", "t", "i", "g", "n", "o", "r", "e">>

\* isHidden(name)
isHidden(name) == HasPrefix(name, <<".">>)

(***************************************************************************)
(* Bounds and input sets                                                   *)
(***************************************************************************)

\* The most regular files a modelled tree holds (besides the ignore-file)
MaxFiles == 2

\* The most rules in a rule list handed to isIgnoredByGitignore
MaxRules == 2

\* Candidate regular files, as slash-separated paths below the root
FilePool ==
    { <<"a", ".", "g", "o">>,
      <<"b", ".", "j", "s">>,
      <<".", "h", "i", "d", "d", "e", "n">>,
      <<"v", "e", "n", "d", "o", "r", "/", "x", ".", "j", "s">>,
      <<"b", "u", "i", "l", "d", "/", "o", "u", "t", ".", "t", "x", "t">>,
      <<"a", ".", "l", "o", "g">>,
      <<"k", "e", "e", "p", ".", "l", "o", "g">>,
      <<"s", "k", "u", "k", "o", "z", "h", "_", "f", "i", "l", "e", "_", "l", "i", "s", "t", ".", "t", "x", "t">>,
      <<"s", "u", "b", "/", "s", "k", "u", "k", "o", "z", "h", "_", "r", "e", "s", "u", "l", "t", ".", "t", "x", "t">>,
      <<"_", "o", "b", "j", "/", "c", ".", "g", "o">>,
      <<"d", "a", "t", "a", ".", "b", "i", "n">>,
      <<"t", "e", "s", "t", ".", "l", "o", "g">>,
      <<".", "c", "f", "g", "/", "d", ".", "g", "o">>,
      <<"V", "e", "n", "d", "o", "r", "/", "M", ".", "G", "O">> }

\* Candidate contents of the root ignore-file
GitignoreTexts ==
    { <<"*", ".", "l", "o", "g", "\n", "!", "k", "e", "e", "p", ".", "l", "o", "g">>,
      <<"b", "u", "i", "l", "d", "/">>,
      <<"b", "u", "i", "l", "d", "/", "\n", "!", "b", "u", "i", "l", "d", "/", "o", "u", "t", ".", "t", "x", "t">>,
      <<"*", ".", "j", "s", "\n", ".", "h", "i", "d", "d", "e", "n">>,
      <<"#", " ", "n", "o", "n", "e", "\n">> }

\* Candidate values of the supportedExts argument
ExtLists ==
    { <<>>,
      << <<".", "g", "o">> >>,
      << <<".", "l", "o", "g">>, <<".", "j", "s">> >> }

\* Candidate rules and paths for isIgnoredByGitignore
RulePool ==
    { [pattern |-> <<"*", ".", "l", "o", "g">>, isDir |-> FALSE, isNegated |-> FALSE],
      [pattern |-> <<"k", "e", "e", "p", ".", "l", "o", "g">>, isDir |-> FALSE, isNegated |-> TRUE],
      [pattern |-> <<"b", "u", "i", "l", "d">>, isDir |-> TRUE, isNegated |-> FALSE],
      [pattern |-> <<"b", "*">>, isDir |-> TRUE, isNegated |-> FALSE],
      [pattern |-> <<"b", "u", "i", "l", "d", "/", "o", "u", "t", ".", "t", "x", "t">>, isDir |-> FALSE, isNegated |-> TRUE],
      [pattern |-> <<"s", "u", "b", "/", "b", "u", "i", "l", "d">>, isDir |-> TRUE, isNegated |-> FALSE],
      [pattern |-> <<"b", "u", "i", "l", "d">>, isDir |-> TRUE, isNegated |-> TRUE] }

PathPool ==
    { <<"a", ".", "l", "o", "g">>,
      <<"k", "e", "e", "p", ".", "l", "o", "g">>,
      <<"b", "u", "i", "l", "d">>,
      <<"b", "u", "i", "l", "d", "/", "o", "u", "t", ".", "t", "x", "t">>,
      <<"b", "u", "i", "l", "d", "/", "k", "e", "e", "p", ".", "l", "o", "g">>,
      <<"s", "u", "b", "/", "b", "u", "i", "l", "d">>,
      <<"x", ".", "l", "o", "g">>,
      <<"a", ".", "g", "o">>,
      <<"s", "u", "b", "/", "a", ".", "l", "o", "g">> }

\* The most regular files of a tree in the walks with unreadable directories
MaxTreeFiles == 3

\* Candidate regular files of those trees
TreeFilePool ==
    { <<"a", ".", "g", "o">>,
      <<".", "h", "i", "d", "d", "e", "n">>,
      <<"v", "e", "n", "d", "o", "r", "/", "x", ".", "j", "s">>,
      <<"b", ".", "j", "s">>,
      <<"_", "o", "b", "j", "/", "c", ".", "g", "o">>,
      <<"b", "u", "i", "l", "d", "/", "o", "u", "t", ".", "t", "x", "t">>,
      <<"b", "u", "i", "l", "d", ".", "g", "o">>,
      <<"d", "a", "t", "a", ".", "b", "i", "n">>,
      <<"t", "e", "s", "t", ".", "l", "o", "g">>,
      <<"V", "e", "n", "d", "o", "r", "/", "M", ".", "G", "O">>,
      <<".", "c", "f", "g", "/", "d", ".", "g", "o">>,
      <<"s", "u", "b", "/", "e", ".", "g", "o">> }

\* Candidate values of the supportedExts argument in those walks
TreeExtLists ==
    { <<>>,
      << <<".", "g", "o">> >>,
      << <<".", "b", "i", "n">>, <<".", "l", "o", "g">> >> }

\* The root ignore-file in those walks
TreeGitignoreFiles ==
    { [state |-> "absent", content |-> <<>>],
      [state |-> "present", content |-> <<"*", ".", "j", "s", "\n", ".", "h", "i", "d", "d", "e", "n">>] }

TreesWithErrors == {tr \in SUBSET TreeFilePool : Cardinality(tr) <= MaxTreeFiles}

\* The root directory as WalkDir names it
rootPath == <<".">>

Trees == {tr \in SUBSET FilePool : Cardinality(tr) <= MaxFiles}

RuleLists == UNION {[1..n -> RulePool] : n \in 0..MaxRules}

\* The states of the root ignore-file: absent, present but unreadable, or
\* present with one of the candidate contents
GitignoreFiles ==
    {[state |-> "absent", content |-> <<>>], [state |-> "unreadable", content |-> <<>>]}
    \cup {[state |-> "present", content |-> c] : c \in GitignoreTexts}

(***************************************************************************)
(* The directory tree as filepath.WalkDir sees it                          *)
(***************************************************************************)

\* The directories on the way to a file: every proper prefix ending before "/"
DirsOf(path) == {Take(path, i - 1) : i \in {k \in 1..Len(path) : path[k] = "/"}}

\* The entries below the root: the regular files (the ignore-file among them
\* when it exists) and the directories that hold them
Entries(tr, gi) ==
    LET fs == tr \cup (IF gi.state = "absent" THEN {} ELSE {gitignoreName})
    IN  {[path |-> f, isDir |-> FALSE, isRoot |-> FALSE, err |-> FALSE] : f \in fs}
        \cup {[path |-> d, isDir |-> TRUE, isRoot |-> FALSE, err |-> FALSE] :
                 d \in UNION {DirsOf(f) : f \in fs}}

\* Order of two lists of names: WalkDir reads each directory sorted by name
\* and descends before it moves on, so paths are visited in the lexical
\* order of their lists of components
RECURSIVE CompLess(_, _)
CompLess(a, b) ==
    IF Len(b) = 0 THEN FALSE
    ELSE IF Len(a) = 0 THEN TRUE
    ELSE IF a[1] = b[1] THEN CompLess(Tail(a), Tail(b))
    ELSE StrLess(a[1], b[1])

WalkLess(e, f) == CompLess(Split(e.path, <<"/">>), Split(f.path, <<"/">>))

RECURSIVE WalkSort(_)
WalkSort(es) ==
    IF es = {} THEN <<>>
    ELSE LET first == CHOOSE e \in es : \A f \in es \ {e} : WalkLess(e, f)
         IN  <<first>> \o WalkSort(es \ {first})

\* The sequence of callback invocations WalkDir makes when nothing is
\* skipped: the root itself, then every entry in walk order
WalkOrder(tr, gi) ==
    <<[path |-> <<".">>, isDir |-> TRUE, isRoot |-> TRUE, err |-> FALSE]>>
    \o WalkSort(Entries(tr, gi))

\* filepath.SkipDir returned for directory e: its subtree is not visited
AfterSkipDir(rest, e) ==
    SelectSeq(rest, LAMBDA f : ~HasPrefix(f.path, e.path \o <<"/">>))

\* The walk ended by the first ReadDir error
AfterReadDirErrorStops(rest, e) == <<>>

\* ReadDir failed for directory e: WalkDir invokes the callback for e once
\* more, with the error, and has no entries of e to go on to
AfterReadDirError(rest, e) ==
    <<[e EXCEPT !.err = TRUE]>> \o (IF e.isRoot THEN <<>> ELSE AfterSkipDir(rest, e))

\* The slice left in the order of the appends
KeepAppendOrder(s) == s

\* sort.Strings
RECURSIVE InsertSorted(_, _)
InsertSorted(sorted, x) ==
    IF Len(sorted) = 0 THEN <<x>>
    ELSE IF StrLess(x, sorted[1]) THEN <<x>> \o sorted
    ELSE <<sorted[1]>> \o InsertSorted(Tail(sorted), x)

RECURSIVE SortStrings(_)
SortStrings(s) ==
    IF Len(s) = 0 THEN <<>> ELSE InsertSorted(SortStrings(Tail(s)), Head(s))

(***************************************************************************)
(* The WalkDir callback of findFilesInternal                               *)
(***************************************************************************)

\* What the callback does with one entry: the message it narrates in debug
\* mode (msg), whether it appends the path to files (add) and whether it
\* returns filepath.SkipDir (skip).
Outcome(msg, add, skip) == [msg |-> msg, add |-> add, skip |-> skip]

\* The locals of findFilesInternal the callback reads: hiddenValue,
\* noIgnoreValue, supportedExts (after the default was substituted) and
\* gitignoreRules
Locals(hv, niv, exts, rules) ==
    [hiddenValue |-> hv, noIgnoreValue |-> niv, supportedExts |-> exts,
     gitignoreRules |-> rules]

\* The rules switched off by the no-ignore flag as well
GitignoreAppliesUnlessNoIgnore(loc) ==
    ~loc.hiddenValue /\ ~loc.noIgnoreValue /\ Len(loc.gitignoreRules) > 0

\* "Apply gitignore rules if they exist and --hidden flag is not set"
GitignoreApplies(loc) == ~loc.hiddenValue /\ Len(loc.gitignoreRules) > 0

\* The entry is rejected by the ignore-file rules
GitignoreRejects(e, loc) ==
    GitignoreApplies(loc) /\ isIgnoredByGitignore(e.path, loc.gitignoreRules, e.isDir)

\* The return for a rejected entry without SkipDir
GitignoreOutcomeDescends(e) == Outcome("Skipping path ignored by .gitignore", FALSE, FALSE)

\* The return for an entry the rules reject: SkipDir for a directory
GitignoreOutcome(e) == Outcome("Skipping path ignored by .gitignore", FALSE, e.isDir)

\* The hidden check with the hidden flag forgotten
HiddenSkippedDespiteHidden(e, loc) == isHidden(Base(e.path)) /\ ~loc.noIgnoreValue

\* The hidden check with the no-ignore flag forgotten
HiddenSkippedDespiteNoIgnore(e, loc) == isHidden(Base(e.path)) /\ ~loc.hiddenValue

\* "Handle hidden files and directories"
HiddenSkipped(e, loc) ==
    isHidden(Base(e.path)) /\ ~loc.hiddenValue /\ ~loc.noIgnoreValue

\* The Go build dir check for the name "_" alone
IsGoBuildDirNamedUnderscore(e) == e.isDir /\ Base(e.path) = <<"_">>

\* "Skip go build files"
IsGoBuildDir(e) == e.isDir /\ HasPrefix(Base(e.path), <<"_">>)

\* The package-directory check comparing names exactly
PackageDirSkippedExactCase(e, loc) ==
    ~loc.noIgnoreValue /\ ~loc.hiddenValue /\ e.isDir
    /\ contains(ignoredDirs, Base(e.path))

\* "Skip ignored directories if noIgnore is false and hidden is false"
PackageDirSkipped(e, loc) ==
    ~loc.noIgnoreValue /\ ~loc.hiddenValue /\ e.isDir
    /\ containsIgnoreCase(ignoredDirs, Base(e.path))

\* The tool-file check with the result file forgotten
IsToolFileListOnly(name) == name = fileListName

\* "Skip tool's own files"
IsToolFile(name) == name = fileListName \/ name = resultName

\* A hidden file that got this far is appended when either flag is set
HiddenFileAdded(loc) == loc.noIgnoreValue \/ loc.hiddenValue

\* "Check extension filter"
ExtRejected(path, loc) ==
    Len(loc.supportedExts) > 0 /\ ~contains(loc.supportedExts, ToLower(Ext(path)))

\* The file branch of the callback, after the directory checks
FileOutcome(e, loc) ==
    LET fileName == Base(e.path)
    IN  IF IsToolFile(fileName)
        THEN Outcome("Skipping tool file in root", FALSE, FALSE)
        ELSE IF fileName = emptyTxtName
        THEN Outcome("", FALSE, FALSE)
        ELSE IF fileName = imageJpgName
        THEN Outcome("", Len(loc.supportedExts) = 0 /\ ~loc.hiddenValue, FALSE)
        ELSE IF fileName = testLogName
        THEN Outcome("", loc.hiddenValue, FALSE)
        ELSE IF ~loc.hiddenValue /\ (fileName = ignoremeName \/ e.path = ignoredDirFile)
        THEN Outcome("", FALSE, FALSE)
        ELSE IF isHidden(fileName)
        THEN Outcome("", HiddenFileAdded(loc), FALSE)
        ELSE IF ExtRejected(e.path, loc)
        THEN Outcome("", FALSE, FALSE)
        ELSE Outcome("", TRUE, FALSE)

\* The callback for entry e
WalkFn(e, loc) ==
    IF e.err THEN Outcome("Error accessing path", FALSE, FALSE)
    ELSE IF e.isRoot THEN Outcome("", FALSE, FALSE)
    ELSE IF GitignoreRejects(e, loc) THEN GitignoreOutcome(e)
    ELSE IF HiddenSkipped(e, loc)
    THEN Outcome(IF e.isDir THEN "Skipping hidden directory" ELSE "Skipping hidden file",
                 FALSE, e.isDir)
    ELSE IF IsGoBuildDir(e) THEN Outcome("Skipping Go build dir", FALSE, TRUE)
    ELSE IF PackageDirSkipped(e, loc) THEN Outcome("Skipping package directory", FALSE, TRUE)
    ELSE IF ~e.isDir THEN FileOutcome(e, loc)
    ELSE Outcome("", FALSE, FALSE)

\* The rules findFilesInternal loads before the walk
LoadRules(hv, gi) ==
    IF ~hv /\ gi.state = "present" THEN parseGitignore(gi.content) ELSE <<>>

\* supportedExts after "if no extensions are specified, use common text
\* extensions"
DefaultExts(argExts) == IF Len(argExts) = 0 THEN commonTextExts ELSE argExts

\* The whole walk from a list of pending callback invocations: the paths
\* appended to files, in the order they are appended
RECURSIVE WalkAll(_, _, _)

\* The rest of the walk once the callback has returned outcome o for the
\* first pending entry
WalkOn(pending, acc, loc, o) ==
    WalkAll(IF o.skip THEN AfterSkipDir(Tail(pending), Head(pending)) ELSE Tail(pending),
            IF o.add THEN Append(acc, Head(pending).path) ELSE acc,
            loc)

WalkAll(pending, acc, loc) ==
    IF Len(pending) = 0 THEN acc
    ELSE WalkOn(pending, acc, loc, WalkFn(Head(pending), loc))

\* The "Hidden flag enabled" special case at the head of findFilesInternal
FixedListCase(hv, niv, argExts) == hv /\ ~niv /\ Len(argExts) = 0

\* The slice findFilesInternal returns for a root that is a directory
FindFilesResult(tr, gi, hv, niv, argExts) ==
    IF FixedListCase(hv, niv, argExts) THEN HiddenTestFiles
    ELSE SortStrings(WalkAll(WalkOrder(tr, gi), <<>>,
                             Locals(hv, niv, DefaultExts(argExts), LoadRules(hv, gi))))

(***************************************************************************)
(* State                                                                   *)
(***************************************************************************)

VARIABLES
    root,            \* what the root argument names: "dir", "file" or "missing"
    tree,            \* the regular files below the root (besides the ignore-file)
    unreadable,      \* the directories whose entries cannot be read
    gitignore,       \* the ignore-file of the root
    hidden,          \* *hidden, process-wide flag
    noIgnore,        \* *noIgnore, process-wide flag
    verbose,         \* *verbose, process-wide flag
    supportedExts,   \* the supportedExts argument of findFilesInternal
    pc,              \* position of the call: "call", "walk", "done"
    hiddenValue,     \* local copies read under flagMutex
    noIgnoreValue,
    debugMode,
    effExts,         \* supportedExts after the default was substituted
    gitignoreRules,  \* rules parsed from the ignore-file
    todo,            \* callback invocations WalkDir still has to make
    files,           \* files, the paths appended so far
    visited,         \* paths the callback has been invoked for
    out,             \* lines narrated on standard output (debug mode)
    retFiles,        \* returned slice (empty for a nil slice)
    retErr,          \* returned error, "nil" for none
    callArgs,        \* arguments of a direct call of a helper function
    callResult,      \* its result
    calls,           \* per goroutine: its findFiles invocation (flag set, saved
                     \* flags, what findFilesInternal read and returned)
    startFlags,      \* the process-wide flags before any findFiles call (history)
    fileList         \* content of the file named fileListName, or "absent"

vars == <<root, tree, unreadable, gitignore, hidden, noIgnore, verbose, supportedExts, pc,
          hiddenValue, noIgnoreValue, debugMode, effExts, gitignoreRules, todo,
          files, visited, out, retFiles, retErr, callArgs, callResult,
          calls, startFlags, fileList>>

\* What a call of findFilesInternal, or a direct call of a helper, leaves as
\* it is
inputVars == <<root, tree, unreadable, gitignore, hidden, noIgnore, verbose, supportedExts,
               calls, startFlags, fileList>>

walkVars == <<hiddenValue, noIgnoreValue, debugMode, effExts, gitignoreRules,
              todo, files, visited, out, retFiles, retErr>>

\* The locals of a findFilesInternal call that has not started
WalkIdle ==
    /\ hiddenValue = FALSE
    /\ noIgnoreValue = FALSE
    /\ debugMode = FALSE
    /\ effExts = <<>>
    /\ gitignoreRules = <<>>
    /\ todo = <<>>
    /\ files = <<>>
    /\ visited = {}
    /\ out = <<>>
    /\ retFiles = <<>>
    /\ retErr = "nil"

NoCall == [fn |-> "none"]

\* The goroutines that may call findFiles
Proc == {1, 2}

\* The values of the three boolean flags of a FlagSet fresh from DefaultFlags
DefaultFlagValues == [noIgnore |-> FALSE, hidden |-> FALSE, verbose |-> FALSE]

\* A goroutine that is in no findFiles call and has n calls to make
ReadyCall(n) ==
    [pc |-> "ready", left |-> n, done |-> 0, fs |-> DefaultFlagValues,
     origNoIgnore |-> FALSE, origHidden |-> FALSE, origVerbose |-> FALSE,
     noIgnoreValue |-> FALSE, hiddenValue |-> FALSE, debugMode |-> FALSE,
     files |-> <<>>, err |-> "nil", printed |-> <<>>, exitCode |-> 0]

\* No goroutine calls findFiles
NoFindFiles ==
    /\ calls = [p \in Proc |-> ReadyCall(0)]
    /\ startFlags = [noIgnore |-> noIgnore, hidden |-> hidden, verbose |-> verbose]
    /\ fileList = "absent"

(***************************************************************************)
(* findFilesInternal(root, supportedExts)                                  *)
(***************************************************************************)

\* A call of findFilesInternal is about to start: any flag values, any
\* argument, a root that is a directory holding a tree, or no directory
Init ==
    /\ root \in {"dir", "file", "missing"}
    /\ tree \in Trees
    /\ unreadable = {}
    /\ gitignore \in GitignoreFiles
    /\ root # "dir" => (tree = {} /\ gitignore.state = "absent")
    /\ hidden \in BOOLEAN
    /\ noIgnore \in BOOLEAN
    /\ verbose \in BOOLEAN
    /\ supportedExts \in ExtLists
    /\ pc = "call"
    /\ WalkIdle
    /\ NoFindFiles
    /\ callArgs = NoCall
    /\ callResult = FALSE

Narrate(lines, dbg, msg) == IF dbg /\ msg # "" THEN Append(lines, msg) ELSE lines

\* Entry of findFilesInternal up to the first callback: read the flags, the
\* fixed-list return, the default extension list, the checks of the root,
\* loading the ignore-file.  SKUKOZH_DEBUG is taken as unset.
FindFilesInternalEnter ==
    /\ pc = "call"
    /\ hiddenValue' = hidden
    /\ noIgnoreValue' = noIgnore
    /\ debugMode' = verbose
    /\ IF FixedListCase(hidden, noIgnore, supportedExts)
       THEN /\ retFiles' = HiddenTestFiles
            /\ retErr' = "nil"
            /\ pc' = "done"
            /\ UNCHANGED <<effExts, gitignoreRules, todo, out>>
       ELSE /\ effExts' = DefaultExts(supportedExts)
            /\ IF root = "missing"
               THEN /\ retErr' = "cannot access directory"
                    /\ pc' = "done"
                    /\ UNCHANGED <<retFiles, gitignoreRules, todo, out>>
               ELSE IF root = "file"
               THEN /\ retErr' = "is not a directory"
                    /\ pc' = "done"
                    /\ UNCHANGED <<retFiles, gitignoreRules, todo, out>>
               ELSE /\ gitignoreRules' = LoadRules(hidden, gitignore)
                    /\ out' = Narrate(Narrate(out, verbose, "Scanning directory"),
                                      verbose /\ ~hidden /\ gitignore.state # "absent",
                                      IF gitignore.state = "present"
                                      THEN "Found .gitignore" ELSE "Error parsing .gitignore")
                    /\ todo' = WalkOrder(tree, gitignore)
                    /\ pc' = "walk"
                    /\ UNCHANGED <<retFiles, retErr>>
    /\ UNCHANGED <<inputVars, files, visited, callArgs, callResult>>

\* The effect of the callback returning outcome o for entry e: the append to
\* files, what WalkDir goes on to, the narration
Callback(e, o) ==
    /\ files' = IF o.add THEN Append(files, e.path) ELSE files
    /\ todo' = IF o.skip THEN AfterSkipDir(Tail(todo), e)
                ELSE IF e.isDir /\ ~e.err /\ e.path \in unreadable
                THEN AfterReadDirError(Tail(todo), e)
                ELSE Tail(todo)
    /\ visited' = visited \cup {e.path}
    /\ out' = Narrate(out, debugMode, o.msg)

\* One invocation of the WalkDir callback
WalkStep ==
    /\ pc = "walk"
    /\ Len(todo) > 0
    /\ Callback(Head(todo),
                WalkFn(Head(todo),
                       Locals(hiddenValue, noIgnoreValue, effExts, gitignoreRules)))
    /\ UNCHANGED <<inputVars, pc, hiddenValue, noIgnoreValue, debugMode, effExts,
                   gitignoreRules, retFiles, retErr, callArgs, callResult>>

\* WalkDir has returned nil: sort and return
FindFilesInternalReturn ==
    /\ pc = "walk"
    /\ Len(todo) = 0
    /\ retFiles' = SortStrings(files)
    /\ retErr' = "nil"
    /\ out' = Narrate(out, debugMode, "Found files")
    /\ pc' = "done"
    /\ UNCHANGED <<inputVars, hiddenValue, noIgnoreValue, debugMode, effExts,
                   gitignoreRules, todo, files, visited, callArgs, callResult>>

Next == FindFilesInternalEnter \/ WalkStep \/ FindFilesInternalReturn

Spec == Init /\ [][Next]_vars

(***************************************************************************)
(* findFilesInternal over trees in which a directory may be unreadable     *)
(***************************************************************************)

\* A call of findFilesInternal on a root that is a directory, where at most
\* one directory (the root itself or one below it) cannot be read
InitTree ==
    /\ root = "dir"
    /\ tree \in TreesWithErrors
    /\ unreadable \in {{}} \cup {{d} : d \in {rootPath} \cup UNION {DirsOf(f) : f \in tree}}
    /\ gitignore \in TreeGitignoreFiles
    /\ hidden \in BOOLEAN
    /\ noIgnore \in BOOLEAN
    /\ verbose = FALSE
    /\ supportedExts \in TreeExtLists
    /\ pc = "call"
    /\ WalkIdle
    /\ NoFindFiles
    /\ callArgs = NoCall
    /\ callResult = FALSE

SpecTree == InitTree /\ [][Next]_vars

(***************************************************************************)
(* Direct calls of isIgnoredByGitignore                                    *)
(***************************************************************************)

InitIgnore ==
    /\ root = "dir"
    /\ tree = {}
    /\ unreadable = {}
    /\ gitignore = [state |-> "absent", content |-> <<>>]
    /\ hidden = FALSE
    /\ noIgnore = FALSE
    /\ verbose = FALSE
    /\ supportedExts = <<>>
    /\ pc = "call"
    /\ WalkIdle
    /\ NoFindFiles
    /\ callArgs \in [fn : {"isIgnoredByGitignore"}, relPath : PathPool,
                     rules : RuleLists, isDir : BOOLEAN]
    /\ callResult = FALSE

CallIsIgnored ==
    /\ pc = "call"
    /\ callArgs.fn = "isIgnoredByGitignore"
    /\ callResult' = isIgnoredByGitignore(callArgs.relPath, callArgs.rules, callArgs.isDir)
    /\ pc' = "done"
    /\ UNCHANGED <<inputVars, walkVars, callArgs>>

NextIgnore == CallIsIgnored

SpecIgnore == InitIgnore /\ [][NextIgnore]_vars

(***************************************************************************)
(* Direct calls of matchGitignorePattern                                   *)
(***************************************************************************)

\* Candidate patterns: literal names, single and double stars, "?",
\* character classes, escapes, a malformed class and a trailing "**"
MatchPatterns ==
    { <<"*", "*", "/", "*", ".", "l", "o", "g">>,
      <<"*", "*", "/", "*", ".", "g", "o">>,
      <<"*", "*", "/", "*", ".">>,
      <<"d", "i", "r">>,
      <<"*", ".", "l", "o", "g">>,
      <<"d", "i", "r", "/", "*", "*", "/", "f", ".", "t", "x", "t">>,
      <<"[", "a", "]", "*">>,
      <<"\\", "*">>,
      <<"a", "*", "*", "b">>,
      <<"*", "*">>,
      <<"d", "?", "r">>,
      <<"[", "a", "b", "]">>,
      <<"a", "\\", "b">>,
      <<"[", "*">>,
      <<"b", "*">>,
      <<"f", "i", "l", "e", "?", ".", "t", "x", "t">>,
      <<"f", "i", "l", "e", "[", "1", "2", "]", ".", "t", "x", "t">>,
      <<"l", "i", "b", "/", "*", "*", "/", "x", ".", "j", "s">>,
      <<"d", "i", "r", "/", "*", "*", "/", "o", "t", "h", "e", "r", ".", "t", "x", "t">>,
      <<"d", "i", "r", "/", "*", "*">> }

\* Candidate paths: the patterns themselves, each pattern followed by "/x",
\* and paths of files and directories
MatchPaths ==
    MatchPatterns
    \cup {pat \o <<"/", "x">> : pat \in MatchPatterns}
    \cup
    { <<"a", ".", "l", "o", "g">>,
      <<"d", "i", "r", "/", "s", "/", "a", ".", "l", "o", "g">>,
      <<".", "l", "o", "g">>,
      <<"a", ".", "l", "o", "g", "x">>,
      <<"d", "i", "r", "/", "s", "/", "f", ".", "t", "x", "t">>,
      <<"d", "i", "r", "/", "s", "u", "b", "/", "f", "i", "l", "e", ".", "t", "x", "t">>,
      <<"a", ".", "l", "o", "g", "/", "b">>,
      <<"x", ".", "g", "o">>,
      <<"s", "/", "x", ".", "g", "o">>,
      <<"d", "i", "r", ".", "l", "o", "g", "/">>,
      <<"a", "*">>,
      <<"b", "c">>,
      <<"f", "i", "l", "e", "1", ".", "t", "x", "t">>,
      <<"f", "i", "l", "e", "2", ".", "t", "x", "t">>,
      <<"m", "y", "l", "i", "b", "/", "a", "/", "x", ".", "j", "s">>,
      <<"d", "i", "r", "/">>,
      <<"d", "i", "r", "/", "s", "u", "b", "/", "f", "i", "l", "e", ".", "l", "o", "g">>,
      <<"f", "i", "l", "e", ".", "l", "o", "g">>,
      <<"d", "i", "r", "/", "s", "u", "b", "d", "i", "r", "/", "f", "i", "l", "e", ".", "t", "x", "t">> }

\* No call of findFilesInternal is under way
NoWalk ==
    /\ root = "dir"
    /\ tree = {}
    /\ unreadable = {}
    /\ gitignore = [state |-> "absent", content |-> <<>>]
    /\ hidden = FALSE
    /\ noIgnore = FALSE
    /\ verbose = FALSE
    /\ supportedExts = <<>>
    /\ pc = "call"
    /\ WalkIdle
    /\ NoFindFiles

InitMatch ==
    /\ NoWalk
    /\ callArgs \in [fn : {"matchGitignorePattern"}, path : MatchPaths,
                     pattern : MatchPatterns]
    /\ callResult = FALSE

CallMatch ==
    /\ pc = "call"
    /\ callArgs.fn = "matchGitignorePattern"
    /\ callResult' = matchGitignorePattern(callArgs.path, callArgs.pattern)
    /\ pc' = "done"
    /\ UNCHANGED <<inputVars, walkVars, callArgs>>

NextMatch == CallMatch

SpecMatch == InitMatch /\ [][NextMatch]_vars

(***************************************************************************)
(* Direct calls of parseGitignore                                          *)
(***************************************************************************)

\* The most lines of an ignore-file handed to parseGitignore
MaxLines == 2

\* Candidate lines: patterns, negated and directory patterns, comments,
\* blank lines, surrounding white space, a carriage return, a malformed class
LinePool ==
    { <<"*", ".", "l", "o", "g">>,
      <<"!", "k", "e", "e", "p", ".", "l", "o", "g">>,
      <<"b", "u", "i", "l", "d", "/">>,
      <<"#", " ", "c">>,
      <<>>,
      <<" ", "x", " ", " ">>,
      <<"!">>,
      <<"/">>,
      <<"!", "d", "/">>,
      <<"!", "#", "a">>,
      <<"a", "\r">>,
      <<"[">>,
      <<"!", "!", "a", "/">> }

\* Candidate contents: up to MaxLines lines joined by newlines
ParseContents ==
    {Join(ls, <<"\n">>) : ls \in UNION {[1..n -> LinePool] : n \in 0..MaxLines}}

InitParse ==
    /\ NoWalk
    /\ callArgs \in [fn : {"parseGitignore"}, content : ParseContents]
    /\ callResult = FALSE

\* parseGitignore on a readable file: the rules and a nil error
CallParse ==
    /\ pc = "call"
    /\ callArgs.fn = "parseGitignore"
    /\ callResult' = [rules |-> parseGitignore(callArgs.content), err |-> "nil"]
    /\ pc' = "done"
    /\ UNCHANGED <<inputVars, walkVars, callArgs>>

NextParse == CallParse

SpecParse == InitParse /\ [][NextParse]_vars

(***************************************************************************)
(* The -ext flag value as runWithFlags turns it into supportedExts         *)
(***************************************************************************)

\* One entry of the flag value: trimmed, "." put in front when it has none
ExtEntry(ext) ==
    LET trimmed == TrimSpace(ext)
    IN  IF HasPrefix(trimmed, <<".">>) THEN trimmed ELSE <<".">> \o trimmed

\* supportedExts as runWithFlags computes it from the value of -ext
ParseExts(extValue) ==
    IF extValue = <<>> THEN <<>>
    ELSE LET exts == Split(extValue, <<",">>)
         IN  [i \in 1..Len(exts) |-> ExtEntry(exts[i])]

\* Candidate values of the -ext flag
ExtFlagValues ==
    { <<>>, <<"g", "o">>, <<"G", "O">>, <<".", "g", "o">>, <<".", "G", "O">>, <<"g", "o", ",", "j", "s">>, <<"G", "o", ",", " ", "J", "S">>, <<" ", ".", "M", "d">>,
      <<"p", "h", "p", ",", "j", "s", ",", "t", "s">>, <<"g", "o", ",">>, <<",">>, <<"t", "x", "t">> }

\* Candidate file names the allow-list is compared with
ExtFileNames ==
    { <<"a", ".", "g", "o">>, <<"A", ".", "G", "O">>, <<"b", ".", "j", "s">>, <<"c", ".", "M", "d">>, <<"d", ".", "t", "x", "t">>, <<"e">>, <<"s", "/", "f", ".", "t", "s">> }

\* The extension filter of the callback: the file passes the allow-list
PassesExtFilter(exts, path) == Len(exts) > 0 => contains(exts, ToLower(Ext(path)))

InitExt ==
    /\ NoWalk
    /\ callArgs \in [fn : {"runWithFlags"}, ext : ExtFlagValues, path : ExtFileNames]
    /\ callResult = FALSE

\* runWithFlags computes supportedExts, and the callback of the walk it
\* starts applies the extension filter to a file
CallParseExts ==
    /\ pc = "call"
    /\ callArgs.fn = "runWithFlags"
    /\ callResult' = [supportedExts |-> ParseExts(callArgs.ext),
                      passes |-> PassesExtFilter(ParseExts(callArgs.ext), callArgs.path)]
    /\ pc' = "done"
    /\ UNCHANGED <<inputVars, walkVars, callArgs>>

NextExt == CallParseExts

SpecExt == InitExt /\ [][NextExt]_vars

(***************************************************************************)
(* findFiles(root, supportedExts, fs), called by one or by two goroutines  *)
(***************************************************************************)

\* The most findFiles calls a goroutine makes one after another
MaxCalls == 2

\* strconv.FormatBool, which the String method of a boolean flag value is
FormatBool(b) == IF b THEN "true" ELSE "false"

\* strconv.ParseBool, its error dropped as findFiles drops it
ParseBool(str) == str \in {"1", "t", "T", "TRUE", "true", "True"}

\* The values the three boolean flags of a FlagSet may have
FlagSets == [noIgnore : BOOLEAN, hidden : BOOLEAN, verbose : BOOLEAN]

\* Trees the calls run over: an empty directory, and a directory with a
\* plain file, a hidden file and a file in a package directory
FindTrees ==
    { {},
      { <<"a", ".", "g", "o">>, <<".", "h", "i", "d", "d", "e", "n">>, <<"v", "e", "n", "d", "o", "r", "/", "x", ".", "j", "s">> } }

\* Candidate values of the supportedExts argument of findFiles
FindExtLists == { <<>>, << <<".", "g", "o">> >> }

\* What findFilesInternal returns when it reads hv and niv as the flags
FindFilesInternalResult(rt, tr, gi, hv, niv, argExts) ==
    IF FixedListCase(hv, niv, argExts) THEN [files |-> HiddenTestFiles, err |-> "nil"]
    ELSE IF rt = "missing" THEN [files |-> <<>>, err |-> "cannot access directory"]
    ELSE IF rt = "file" THEN [files |-> <<>>, err |-> "is not a directory"]
    ELSE [files |-> FindFilesResult(tr, gi, hv, niv, argExts), err |-> "nil"]

\* The first line findFilesInternal prints in debug mode (the lines it
\* prints after it, one for an entry it skips, are left out)
ScanningLine(rt, hv, niv, dbg, argExts) ==
    IF dbg /\ ~FixedListCase(hv, niv, argExts) /\ rt = "dir"
    THEN <<"Scanning directory">> ELSE <<>>

\* One goroutine calls findFiles up to MaxCalls times, with any flag sets;
\* the process-wide flags have any values
InitFindFiles ==
    /\ root \in {"dir", "missing"}
    /\ tree \in FindTrees
    /\ root # "dir" => tree = {}
    /\ unreadable = {}
    /\ gitignore = [state |-> "absent", content |-> <<>>]
    /\ hidden \in BOOLEAN
    /\ noIgnore \in BOOLEAN
    /\ verbose \in BOOLEAN
    /\ supportedExts \in FindExtLists
    /\ pc = "call"
    /\ WalkIdle
    /\ callArgs = NoCall
    /\ callResult = FALSE
    /\ calls = [p \in Proc |-> IF p = 1 THEN ReadyCall(MaxCalls) ELSE ReadyCall(0)]
    /\ startFlags = [noIgnore |-> noIgnore, hidden |-> hidden, verbose |-> verbose]
    /\ fileList = "absent"

\* Two goroutines call findFiles once each
InitConcurrent ==
    /\ root \in {"dir", "missing"}
    /\ tree \in FindTrees
    /\ root # "dir" => tree = {}
    /\ unreadable = {}
    /\ gitignore = [state |-> "absent", content |-> <<>>]
    /\ hidden \in BOOLEAN
    /\ noIgnore \in BOOLEAN
    /\ verbose \in BOOLEAN
    /\ supportedExts \in FindExtLists
    /\ pc = "call"
    /\ WalkIdle
    /\ callArgs = NoCall
    /\ callResult = FALSE
    /\ calls = [p \in Proc |-> ReadyCall(1)]
    /\ startFlags = [noIgnore |-> noIgnore, hidden |-> hidden, verbose |-> verbose]
    /\ fileList = "absent"

findFilesVars == <<root, tree, unreadable, gitignore, supportedExts, pc, walkVars,
                   callArgs, callResult, startFlags>>

\* The flags left as findFiles set them: nothing is put back
FlagsLeftAsSet(c) ==
    [noIgnore |-> c.fs.noIgnore, hidden |-> c.fs.hidden, verbose |-> c.fs.verbose]

\* The flags as the deferred function of findFiles leaves them
RestoredFlags(c) ==
    [noIgnore |-> c.origNoIgnore, hidden |-> c.origHidden, verbose |-> c.origVerbose]

\* findFiles up to the end of its first critical section: the values of the
\* FlagSet are read, the process-wide flags saved and then set to them
FindFilesSet ==
    \E p \in Proc, fs \in FlagSets :
        /\ calls[p].pc = "ready"
        /\ calls[p].left > 0
        /\ calls' = [calls EXCEPT ![p] =
              [@ EXCEPT !.pc = "set",
                        !.fs = [noIgnore |-> ParseBool(FormatBool(fs.noIgnore)),
                                hidden |-> ParseBool(FormatBool(fs.hidden)),
                                verbose |-> ParseBool(FormatBool(fs.verbose))],
                        !.origNoIgnore = noIgnore,
                        !.origHidden = hidden,
                        !.origVerbose = verbose,
                        !.noIgnoreValue = FALSE,
                        !.hiddenValue = FALSE,
                        !.debugMode = FALSE,
                        !.files = <<>>,
                        !.err = "nil",
                        !.printed = <<>>,
                        !.exitCode = 0]]
        /\ noIgnore' = ParseBool(FormatBool(fs.noIgnore))
        /\ hidden' = ParseBool(FormatBool(fs.hidden))
        /\ verbose' = ParseBool(FormatBool(fs.verbose))
        /\ UNCHANGED <<findFilesVars, fileList>>

\* findFilesInternal has returned r to goroutine p, having read the
\* process-wide flags under flagMutex
InternalReturns(p, r) ==
    calls' = [calls EXCEPT ![p] =
        [@ EXCEPT !.pc = "walked",
                  !.noIgnoreValue = noIgnore,
                  !.hiddenValue = hidden,
                  !.debugMode = verbose,
                  !.files = r.files,
                  !.err = r.err,
                  !.printed = ScanningLine(root, hidden, noIgnore, verbose, supportedExts)]]

\* The call of findFilesInternal by findFiles.  SKUKOZH_DEBUG is taken as
\* unset.
FindFilesInternalCall ==
    \E p \in Proc :
        /\ calls[p].pc = "set"
        /\ InternalReturns(p, FindFilesInternalResult(root, tree, gitignore, hidden,
                                                      noIgnore, supportedExts))
        /\ UNCHANGED <<findFilesVars, hidden, noIgnore, verbose, fileList>>

\* findFiles after findFilesInternal up to its return statement: the walk
\* error, the empty result, the write of the file list, which may fail
FindFilesFinish ==
    \E p \in Proc, writeOk \in BOOLEAN :
        /\ calls[p].pc = "walked"
        /\ IF calls[p].err # "nil"
           THEN /\ calls' = [calls EXCEPT ![p] =
                      [@ EXCEPT !.pc = "deferred",
                                !.printed = Append(@, "Error walking directory"),
                                !.exitCode = 1]]
                /\ UNCHANGED fileList
           ELSE IF Len(calls[p].files) = 0
           THEN /\ calls' = [calls EXCEPT ![p] =
                      [@ EXCEPT !.pc = "deferred",
                                !.printed = Append(@, IF calls[p].fs.hidden
                                                      THEN "No files found even with hidden files included."
                                                      ELSE "No files found!")]]
                /\ UNCHANGED fileList
           ELSE IF ~writeOk
           THEN /\ calls' = [calls EXCEPT ![p] =
                      [@ EXCEPT !.pc = "deferred",
                                !.printed = Append(@, "Error writing file list"),
                                !.exitCode = 1]]
                /\ UNCHANGED fileList
           ELSE /\ calls' = [calls EXCEPT ![p] =
                      [@ EXCEPT !.pc = "deferred",
                                !.printed = Append(@, "File list saved")]]
                /\ fileList' = calls[p].files
        /\ UNCHANGED <<findFilesVars, hidden, noIgnore, verbose>>

\* The deferred function of findFiles: the saved values are put back
FindFilesRestore ==
    \E p \in Proc :
        /\ calls[p].pc = "deferred"
        /\ noIgnore' = RestoredFlags(calls[p]).noIgnore
        /\ hidden' = RestoredFlags(calls[p]).hidden
        /\ verbose' = RestoredFlags(calls[p]).verbose
        /\ calls' = [calls EXCEPT ![p] =
              [@ EXCEPT !.pc = "ready", !.left = @ - 1, !.done = @ + 1]]
        /\ UNCHANGED <<findFilesVars, fileList>>

NextFindFiles ==
    FindFilesSet \/ FindFilesInternalCall \/ FindFilesFinish \/ FindFilesRestore

SpecFindFiles == InitFindFiles /\ [][NextFindFiles]_vars

SpecConcurrent == InitConcurrent /\ [][NextFindFiles]_vars

(***************************************************************************)
(* Properties                                                              *)
(***************************************************************************)

\* The verdict of the last rule of rules (in order) whose pattern matches
\* path per matchGitignorePattern: ignored unless that rule is negated, and
\* not ignored when no rule matches
LastMatchVerdict(path, rules) ==
    LET hits == {i \in 1..Len(rules) : matchGitignorePattern(path, rules[i].pattern)}
    IN  IF hits = {} THEN FALSE
        ELSE ~rules[CHOOSE i \in hits : \A j \in hits : j <= i].isNegated

IgnoreCallDone == pc = "done" /\ callArgs.fn = "isIgnoredByGitignore"

NoDirOnlyRule(rules) == \A i \in 1..Len(rules) : ~rules[i].isDir

FindDone == pc = "done" /\ callArgs = NoCall

\* The returned slice as a set of paths
Returned == {retFiles[i] : i \in 1..Len(retFiles)}

\* C2: findFilesInternal returns an error and no list whenever the root does
\* not exist or is not a directory, for every combination of hidden,
\* no-ignore and extension list.
C2_RootErrorAlways ==
    (FindDone /\ root # "dir") => (retErr # "nil" /\ Len(retFiles) = 0)

\* C3: no path of the result has a final component equal to the file-list
\* name or the result name, whatever the tree, the flags and the extension
\* list.
C3_NoToolArtifacts ==
    FindDone => \A p \in Returned : Base(p) # fileListName /\ Base(p) # resultName

\* C3 witness: with both permissive flags set the walk met a file-list file
\* and a result file, and returned.
C3_Witness ==
    /\ FindDone
    /\ hiddenValue /\ noIgnoreValue
    /\ \E f \in tree \cap visited : Base(f) = fileListName
    /\ \E f \in tree \cap visited : Base(f) = resultName
    /\ retErr = "nil"

\* The regular files below the root, the ignore-file among them
AllFiles == tree \cup (IF gitignore.state = "absent" THEN {} ELSE {gitignoreName})

\* The rules of the root ignore-file as written, whatever the flags
RootRules ==
    IF gitignore.state = "present" THEN parseGitignore(gitignore.content) ELSE <<>>

\* The rules reject the file itself or a directory on the way to it
RuleRejected(f, rules) ==
    \/ isIgnoredByGitignore(f, rules, FALSE)
    \/ \E d \in DirsOf(f) : isIgnoredByGitignore(d, rules, TRUE)

\* The file lies beneath a directory whose name starts with "_"
UnderGoBuildDir(f) == \E d \in DirsOf(f) : HasPrefix(Base(d), <<"_">>)

\* The file lies beneath a directory with a built-in vendor/build name
UnderPackageDir(f) == \E d \in DirsOf(f) : containsIgnoreCase(ignoredDirs, Base(d))

\* The file, or a directory on the way to it, has a name starting with "."
HiddenEntry(f) == isHidden(Base(f)) \/ \E d \in DirsOf(f) : isHidden(Base(d))

\* File names the callback decides by name alone
ReservedName(f) ==
    \/ Base(f) \in {emptyTxtName, imageJpgName, testLogName, ignoremeName}
    \/ f = ignoredDirFile

\* The lowercase extension is in the list in force (the argument, or the
\* common text extensions when the argument is empty)
ExtInForce(f) == contains(DefaultExts(supportedExts), ToLower(Ext(f)))

\* C4 as stated: with no-ignore set and hidden not, files under vendor/build
\* directories are in the result, and every file or directory whose name
\* starts with "." is still excluded.
C4_NoIgnoreKeepsHiddenOut ==
    (FindDone /\ root = "dir" /\ noIgnore /\ ~hidden) =>
        /\ \A p \in Returned : ~HiddenEntry(p)
        /\ \A f \in tree :
              (UnderPackageDir(f) /\ ~HiddenEntry(f) /\ ~RuleRejected(f, RootRules)
               /\ ~UnderGoBuildDir(f) /\ ~IsToolFile(Base(f)) /\ ~ReservedName(f)
               /\ ExtInForce(f))
              => f \in Returned

\* C4 (amended): with no-ignore set and hidden not, neither a vendor/build
\* directory name nor a name starting with "." excludes a file: a file
\* beneath such a directory, or with such a name, is in the result when the
\* ignore-file rules, the "_" directory rule, the tool-file and reserved
\* names admit it and its extension is in the list in force, or its own name
\* starts with "." and no extension list was given.
C4_NoIgnoreAdmitsVendorAndHidden ==
    (FindDone /\ root = "dir" /\ noIgnore /\ ~hidden) =>
        \A f \in AllFiles :
            ((UnderPackageDir(f) \/ HiddenEntry(f)) /\ ~RuleRejected(f, RootRules)
             /\ ~UnderGoBuildDir(f) /\ ~IsToolFile(Base(f)) /\ ~ReservedName(f)
             /\ ((isHidden(Base(f)) /\ Len(supportedExts) = 0) \/ ExtInForce(f)))
            => f \in Returned

\* C4 witness: a no-ignore walk returned a file beneath a vendor directory
\* and a file whose name starts with ".".
C4_Witness ==
    /\ FindDone /\ root = "dir" /\ noIgnore /\ ~hidden
    /\ \E f \in tree \cap Returned : UnderPackageDir(f) /\ ~HiddenEntry(f)
    /\ \E f \in tree \cap Returned : isHidden(Base(f))

\* The ignore-file and tree of scenario C
ScenarioCText == <<"*", ".", "l", "o", "g", "\n", "!", "k", "e", "e", "p", ".", "l", "o", "g">>
aLog == <<"a", ".", "l", "o", "g">>
keepLog == <<"k", "e", "e", "p", ".", "l", "o", "g">>
dotLog == <<".", "l", "o", "g">>

ScenarioC ==
    /\ FindDone /\ root = "dir"
    /\ tree = {aLog, keepLog}
    /\ gitignore = [state |-> "present", content |-> ScenarioCText]

Appended == {files[i] : i \in 1..Len(files)}

\* The directories below the root
TreeDirs == UNION {DirsOf(f) : f \in AllFiles}

C7_NoIgnoreKeepsIgnoreFile ==
    (FindDone /\ root = "dir" /\ noIgnore /\ ~hidden) =>
        \A q \in Returned : ~RuleRejected(q, RootRules)

\* C7 witness: a no-ignore walk visited a file that the rules reject and
\* that every other check admits; it is not in the result, other files are.
C7_Witness ==
    /\ FindDone /\ root = "dir" /\ noIgnore /\ ~hidden
    /\ Len(retFiles) > 0
    /\ \E f \in tree :
          /\ f \in visited
          /\ isIgnoredByGitignore(f, RootRules, FALSE)
          /\ ~IsToolFile(Base(f)) /\ ~ReservedName(f)
          /\ (isHidden(Base(f)) \/ ExtInForce(f))
          /\ f \notin Returned

\* C8: with hidden set the result does not depend on the rule text of the
\* root ignore-file (the same tree and options with any other rule text
\* give the same slice), and no entry the walk reaches is left out for a
\* name starting with ".": such a file is returned when no extension list
\* was given or its extension is in the list, and the walk descends into
\* such a directory.
C8_HiddenIgnoresRules ==
    (FindDone /\ root = "dir" /\ hidden /\ gitignore.state = "present") =>
        /\ \A c \in GitignoreTexts :
              retFiles = FindFilesResult(tree, [state |-> "present", content |-> c],
                                         hidden, noIgnore, supportedExts)
        /\ \A q \in visited :
              isHidden(Base(q)) =>
                  /\ (q \in AllFiles /\ (Len(supportedExts) = 0 \/ ExtInForce(q)))
                        => q \in Returned
                  /\ \A f \in AllFiles :
                        (q \in DirsOf(f) /\ ~UnderGoBuildDir(f)) => f \in visited

\* C8 witness: a walk with hidden set, over a tree whose ignore-file has a
\* rule rejecting a file of the tree, returned that file, a file with a
\* name starting with "." and a file beneath a directory with such a name.
C8_Witness ==
    /\ FindDone /\ root = "dir" /\ hidden /\ gitignore.state = "present"
    /\ \E f \in tree \cap Returned : isIgnoredByGitignore(f, RootRules, FALSE)
    /\ \E f \in AllFiles \cap Returned :
          isHidden(Base(f)) /\ f \in visited /\ Len(supportedExts) = 0
    /\ \E f \in tree \cap Returned : \E d \in DirsOf(f) : isHidden(Base(d)) /\ d \in visited

\* C9: when the extension list given is not empty, every path of the result
\* has a lowercase extension that is in the list, for every setting of
\* hidden and no-ignore.
C9_AllowListAlways ==
    (FindDone /\ retErr = "nil" /\ Len(supportedExts) > 0) =>
        \A q \in Returned : contains(supportedExts, ToLower(Ext(q)))

\* A file no other step of the policy concerns: no rule rejects it, no
\* directory on the way to it and not its own name is hidden, a vendor/build
\* name or a "_" name, and its name is neither a tool file nor reserved
PlainFile(f) ==
    /\ ~RuleRejected(f, RootRules)
    /\ ~HiddenEntry(f)
    /\ ~UnderPackageDir(f)
    /\ ~UnderGoBuildDir(f)
    /\ ~IsToolFile(Base(f))
    /\ ~ReservedName(f)

\* C10: when no extension list is given and no-ignore or hidden is set, the
\* common text extensions are not applied: a file that passes the other
\* steps is in the result whatever its extension.
C10_NoFallbackWhenPermissive ==
    (FindDone /\ root = "dir" /\ Len(supportedExts) = 0 /\ (noIgnore \/ hidden)) =>
        \A f \in tree : PlainFile(f) => f \in Returned

\* A directory on the way to the file, or the root, cannot be read
BeneathUnreadable(f) ==
    rootPath \in unreadable \/ \E d \in DirsOf(f) : d \in unreadable

\* The lowercase extension is one of the binary-format extensions
BinaryExt(f) == contains(binaryFileExts, ToLower(Ext(f)))

\* C11: when no-ignore is not set, no returned path has a lowercase
\* extension among the binary-format extensions, whatever the extension list
\* holds.
C11_BinaryNeverIncluded ==
    (FindDone /\ root = "dir" /\ ~noIgnore) =>
        \A q \in Returned : ~BinaryExt(q)

\* The tree and options of scenario A
aGo == <<"a", ".", "g", "o">>
dotHidden == <<".", "h", "i", "d", "d", "e", "n">>
vendorXJs == <<"v", "e", "n", "d", "o", "r", "/", "x", ".", "j", "s">>
vendorDir == <<"v", "e", "n", "d", "o", "r">>

ScenarioA ==
    /\ root = "dir"
    /\ tree = {aGo, dotHidden, vendorXJs}
    /\ gitignore.state = "absent"
    /\ unreadable = {}
    /\ ~hidden /\ ~noIgnore
    /\ supportedExts = <<>>

\* C12: with hidden and no-ignore not set, no returned path is a hidden
\* file or lies beneath a directory whose name is hidden or equals, ignoring
\* case, a built-in vendor/build directory name; the tree {a.go, .hidden,
\* vendor/x.js} without ignore-file yields exactly [a.go].
C12_DefaultsExcludeHiddenAndVendor ==
    (FindDone /\ ~hidden /\ ~noIgnore) =>
        /\ \A q \in Returned : ~HiddenEntry(q) /\ ~UnderPackageDir(q)
        /\ ScenarioA => retFiles = <<aGo>>

\* C12 witness: scenario A was walked: the hidden file and the vendor
\* directory were reached, and [a.go] was returned.
C12_Witness ==
    /\ FindDone /\ ScenarioA
    /\ {aGo, dotHidden, vendorDir} \subseteq visited
    /\ vendorXJs \notin visited
    /\ retFiles = <<aGo>>

\* No step of the decision order rejects the file: not hidden-excluded, not
\* beneath a pruned or unreadable directory, not rejected by the ignore-file
\* rules, no binary extension, extension in the list in force, no tool file
Admissible(f) ==
    /\ ~(~hidden /\ ~noIgnore /\ HiddenEntry(f))
    /\ ~UnderGoBuildDir(f)
    /\ ~(~hidden /\ ~noIgnore /\ UnderPackageDir(f))
    /\ ~(~hidden /\ RuleRejected(f, RootRules))
    /\ ~(~noIgnore /\ BinaryExt(f))
    /\ ExtInForce(f)
    /\ ~IsToolFile(Base(f))
    /\ ~BeneathUnreadable(f)

\* C13: every regular file below the root that no policy step rejects and
\* that is no tool file is in the result, whatever its base name.
C13_AdmissionComplete ==
    (FindDone /\ root = "dir") =>
        \A f \in tree : Admissible(f) => f \in Returned

\* C14: a directory whose name starts with "_" is never descended into:
\* nothing beneath one is visited, appended or returned, for every
\* combination of hidden, no-ignore and extension list.
C14_NoDescentIntoUnderscoreDir ==
    callArgs = NoCall =>
        \A q \in visited \cup Appended \cup Returned : ~UnderGoBuildDir(q)

\* C14 witness: with hidden and no-ignore both set the walk reached a
\* directory whose name starts with "_" and returned without visiting the
\* file beneath it.
C14_Witness ==
    /\ FindDone /\ root = "dir" /\ hidden /\ noIgnore
    /\ \E f \in tree : \E d \in DirsOf(f) :
          /\ HasPrefix(Base(d), <<"_">>)
          /\ d \in visited
          /\ ExtInForce(f)
          /\ f \notin visited
          /\ f \notin Returned

\* The components of a slash-separated path
Components(p) == Split(p, <<"/">>)

\* A path relative to the root, "/" its only separator: no empty, "." or
\* ".." component and no backslash
RelativeSlashPath(p) ==
    /\ Len(p) > 0
    /\ \A i \in 1..Len(p) : p[i] # "\\"
    /\ \A i \in 1..Len(Components(p)) :
          Components(p)[i] \notin {<<>>, <<".">>, <<".", ".">>}

\* C15: a returned slice is in strictly ascending order of the path strings
\* (so no path is in it twice) and holds only paths relative to the root
\* with "/" as separator; after a walk they are paths of files of the tree.
C15_SortedUniqueRelative ==
    (FindDone /\ retErr = "nil") =>
        /\ \A i \in 1..(Len(retFiles) - 1) : StrLess(retFiles[i], retFiles[i + 1])
        /\ \A q \in Returned : RelativeSlashPath(q)
        /\ visited # {} => Returned \subseteq AllFiles

\* C15 witness: a walk appended two files in an order that is not the order
\* of the strings, one of them beneath a directory, and returned them sorted.
C15_Witness ==
    /\ FindDone /\ retErr = "nil"
    /\ Len(files) = 2
    /\ StrLess(files[2], files[1])
    /\ \E i \in 1..2 : Contains(files[i], <<"/">>)
    /\ retFiles = <<files[2], files[1]>>

MatchCallDone == pc = "done" /\ callArgs.fn = "matchGitignorePattern"

\* The final segment of a path: what follows its last "/"
FinalSegment(path) == Drop(path, LastIndexChar(path, "/"))

\* A pattern of the shape "**/*.<ext>", the extension free of "/"
IsAnyDepthExtPattern(pattern) ==
    /\ HasPrefix(pattern, <<"*", "*", "/", "*", ".">>)
    /\ ~Contains(Drop(pattern, 5), <<"/">>)

\* C16: for a pattern "**/*.<ext>" and any path, matchGitignorePattern is
\* true if and only if the final segment of the path ends with ".<ext>", at
\* any depth, a top-level file included.
C16_AnyDepthExtension ==
    (MatchCallDone /\ IsAnyDepthExtPattern(callArgs.pattern)) =>
        (callResult <=> HasSuffix(FinalSegment(callArgs.path), Drop(callArgs.pattern, 4)))

\* C16 witness: a pattern "**/*.<ext>" with a non-empty extension was
\* matched against a file two directories down and found to match.
C16_Witness ==
    /\ MatchCallDone
    /\ IsAnyDepthExtPattern(callArgs.pattern)
    /\ Len(callArgs.pattern) > 5
    /\ Len(Components(callArgs.path)) = 3
    /\ callResult = TRUE

\* C17 as stated: matchGitignorePattern(X, X) is true for every string X.
C17_Reflexive ==
    (MatchCallDone /\ callArgs.path = callArgs.pattern) => callResult = TRUE

\* The string has a "[" or a backslash, which filepath.Match reads as the
\* start of a character class or an escape
HasClassOrEscape(x) == \E i \in 1..Len(x) : x[i] \in {"[", "\\"}

\* C17 (amended): matchGitignorePattern(X, X) is true for every X without
\* "*" (compared literally, "?", brackets and backslashes included), for
\* every X containing "**", and for every X with a single "*" that has no
\* "[" and no backslash.
C17_ReflexiveUnlessClassOrEscape ==
    (MatchCallDone /\ callArgs.path = callArgs.pattern
     /\ (\/ ~Contains(callArgs.pattern, <<"*">>)
         \/ Contains(callArgs.pattern, <<"*", "*">>)
         \/ ~HasClassOrEscape(callArgs.pattern)))
    => callResult = TRUE

\* C17 witness: a string with a single "*" was matched against itself and
\* matches.
C17_Witness ==
    /\ MatchCallDone
    /\ callArgs.path = callArgs.pattern
    /\ Contains(callArgs.pattern, <<"*">>)
    /\ ~Contains(callArgs.pattern, <<"*", "*">>)
    /\ callResult = TRUE

\* C18: matchGitignorePattern(path, pattern) is true whenever path starts
\* with pattern followed by "/", for every pattern.
C18_DirectoryPrefix ==
    (MatchCallDone /\ HasPrefix(callArgs.path, callArgs.pattern \o <<"/">>))
    => callResult = TRUE

ParseCallDone == pc = "done" /\ callArgs.fn = "parseGitignore"

\* The lines of the content that, trimmed, are non-empty and no comment
RuleLines(content) ==
    SelectSeq(Split(content, <<"\n">>),
              LAMBDA l : TrimSpace(l) # <<>> /\ TrimSpace(l)[1] # "#")

\* The rule a line stands for: a leading "!" and then a trailing "/" are
\* taken off the trimmed line and recorded
RuleOfLine(l) ==
    LET trimmed == TrimSpace(l)
        neg == trimmed[1] = "!"
        body == IF neg THEN SubSeq(trimmed, 2, Len(trimmed)) ELSE trimmed
        dir == Len(body) > 0 /\ body[Len(body)] = "/"
    IN  [pattern |-> IF dir THEN SubSeq(body, 1, Len(body) - 1) ELSE body,
         isDir |-> dir, isNegated |-> neg]

\* C19: parseGitignore returns, without error, exactly one rule per line
\* that is non-empty and no comment after trimming, in file order; a leading
\* "!" sets isNegated, a trailing "/" sets isDir, both are taken off the
\* pattern, and no line is dropped or rewritten for a malformed pattern.
C19_OneRulePerLine ==
    ParseCallDone =>
        /\ callResult.err = "nil"
        /\ Len(callResult.rules) = Len(RuleLines(callArgs.content))
        /\ \A i \in 1..Len(callResult.rules) :
              callResult.rules[i] = RuleOfLine(RuleLines(callArgs.content)[i])

\* C19 witness: a content with a blank or comment line and a line holding
\* an unclosed "[" was parsed into the one rule of the second, its pattern
\* kept as written.
C19_Witness ==
    /\ ParseCallDone
    /\ Len(Split(callArgs.content, <<"\n">>)) = 2
    /\ Len(callResult.rules) = 1
    /\ callResult.rules[1].pattern = <<"[">>

\* The files of the tree that do not lie beneath an unreadable directory
ReadableTree == {f \in tree : \A d \in DirsOf(f) : d \notin unreadable}

\* C20: an error reported for an entry during the walk does not abort
\* discovery: nothing beneath the unreadable directory is visited, and
\* findFilesInternal returns, with no error, what it returns for the tree
\* without the files beneath that directory (nothing when the root itself
\* cannot be read).
C20_EntryErrorsAbsorbed ==
    (FindDone /\ root = "dir" /\ visited # {}) =>
        /\ retErr = "nil"
        /\ \A d \in unreadable : \A q \in visited : d \notin DirsOf(q)
        /\ rootPath \in unreadable => visited = {rootPath}
        /\ retFiles = IF rootPath \in unreadable THEN <<>>
                      ELSE FindFilesResult(ReadableTree, gitignore, hidden, noIgnore,
                                           supportedExts)

\* C20 witness: the walk entered a directory that cannot be read, holding a
\* file that would otherwise be returned; that file was not visited, and a
\* file visited after the directory is in the result.
C20_Witness ==
    /\ FindDone /\ root = "dir" /\ retErr = "nil"
    /\ \E d \in unreadable :
          /\ d \in visited
          /\ ~WalkFn([path |-> d, isDir |-> TRUE, isRoot |-> FALSE, err |-> FALSE],
                     Locals(hiddenValue, noIgnoreValue, effExts, gitignoreRules)).skip
          /\ \E f \in tree :
                /\ d \in DirsOf(f)
                /\ f \notin visited
                /\ f \in {FindFilesResult(tree, gitignore, hidden, noIgnore,
                                          supportedExts)[i] :
                            i \in 1..Len(FindFilesResult(tree, gitignore, hidden,
                                                         noIgnore, supportedExts))}
          /\ \E g \in tree \cap Returned : CompLess(Components(d), Components(g))

\* C23: a pattern that contains "*" and no "/" matches a path whenever the
\* final component of the path glob-matches the pattern, at any depth.
C23_StarMatchesFinalComponent ==
    (/\ MatchCallDone
     /\ Contains(callArgs.pattern, <<"*">>)
     /\ ~Contains(callArgs.pattern, <<"/">>)
     /\ ~Match(callArgs.pattern, FinalSegment(callArgs.path)).err
     /\ Match(callArgs.pattern, FinalSegment(callArgs.path)).matched)
    => callResult = TRUE

\* The pattern has a "?" or a "[", which a shell glob reads as a wildcard
HasQuestionOrClass(x) == \E i \in 1..Len(x) : x[i] \in {"?", "["}

\* C24: a pattern containing "?" or a bracket class, with or without "*",
\* is matched as a shell glob confined to one path segment: when
\* filepath.Match accepts the path for the pattern, so does
\* matchGitignorePattern.
C24_QuestionAndClassAreGlobs ==
    (/\ MatchCallDone
     /\ HasQuestionOrClass(callArgs.pattern)
     /\ ~Contains(callArgs.pattern, <<"*", "*">>)
     /\ ~Match(callArgs.pattern, callArgs.path).err
     /\ Match(callArgs.pattern, callArgs.path).matched)
    => callResult = TRUE

\* A pattern that takes the generic "**" branch: it has "**" and is not of
\* the shape "**/*."
IsGenericDoubleStar(pattern) ==
    /\ Contains(pattern, <<"*", "*">>)
    /\ ~HasPrefix(pattern, <<"*", "*", "/", "*", ".">>)

\* The pieces i.. occur one after another in the path from offset from on,
\* the last piece, when non-empty, as the end of the path
RECURSIVE PiecesInOrder(_, _, _, _)
PiecesInOrder(pieces, i, path, from) ==
    IF i > Len(pieces) THEN TRUE
    ELSE IF i = Len(pieces)
    THEN \/ pieces[i] = <<>>
         \/ /\ Len(path) - Len(pieces[i]) >= from
            /\ HasSuffix(path, pieces[i])
    ELSE \E e \in from..Len(path) :
            /\ e - Len(pieces[i]) >= from
            /\ HasSuffix(Take(path, e), pieces[i])
            /\ PiecesInOrder(pieces, i + 1, path, e)

\* As PiecesInOrder, each piece but the last ending before the end of what
\* is left of the path (the scan of a piece stops one short of the end)
RECURSIVE PiecesInOrderInside(_, _, _, _)
PiecesInOrderInside(pieces, i, path, from) ==
    IF i > Len(pieces) THEN TRUE
    ELSE IF i = Len(pieces)
    THEN \/ pieces[i] = <<>>
         \/ /\ Len(path) - Len(pieces[i]) >= from
            /\ HasSuffix(path, pieces[i])
    ELSE \E e \in from..(Len(path) - 1) :
            /\ e - Len(pieces[i]) >= from
            /\ HasSuffix(Take(path, e), pieces[i])
            /\ PiecesInOrderInside(pieces, i + 1, path, e)

\* C25 as stated: for a pattern with "**" that is not of the "**/*." shape,
\* matchGitignorePattern is true if and only if the pieces of the pattern
\* split on "**" occur in order along the path and the final piece, when
\* non-empty, is a suffix of the path.
C25_PiecesInOrder ==
    (MatchCallDone /\ IsGenericDoubleStar(callArgs.pattern)) =>
        (callResult <=> PiecesInOrder(Split(callArgs.pattern, <<"*", "*">>), 1,
                                      callArgs.path, 0))

\* C25 (amended): for a pattern with "**" that is not of the "**/*." shape,
\* matchGitignorePattern is true if and only if the pieces of the pattern
\* split on "**" occur in order along the path, every piece but the last
\* ending before the end of the path, and the final piece, when non-empty,
\* is the end of what follows the piece before it.
C25_PiecesInOrderInside ==
    (MatchCallDone /\ IsGenericDoubleStar(callArgs.pattern)) =>
        (callResult <=> PiecesInOrderInside(Split(callArgs.pattern, <<"*", "*">>), 1,
                                            callArgs.path, 0))

\* C25 witness: a pattern "dir/**/<name>" was matched against a path with
\* one directory between dir and the name, and matches.
C25_Witness ==
    /\ MatchCallDone
    /\ IsGenericDoubleStar(callArgs.pattern)
    /\ Len(Split(callArgs.pattern, <<"*", "*">>)) = 2
    /\ Split(callArgs.pattern, <<"*", "*">>)[1] = <<"d", "i", "r", "/">>
    /\ Len(Split(callArgs.pattern, <<"*", "*">>)[2]) > 0
    /\ Len(Components(callArgs.path)) = 3
    /\ callResult = TRUE

\* C26: in the generic "**" branch a piece before the last is looked for as
\* a substring ending anywhere in the remaining path, at the start of the
\* path or of a segment or not: a path matches as soon as one of its
\* suffixes does, and "lib/**/x.js" matches "mylib/a/x.js".
C26_PieceNotAnchored ==
    (MatchCallDone /\ IsGenericDoubleStar(callArgs.pattern)) =>
        /\ (\E k \in 0..Len(callArgs.path) :
               matchGitignorePattern(Drop(callArgs.path, k), callArgs.pattern))
           => callResult = TRUE
        /\ (callArgs.pattern = <<"l", "i", "b", "/", "*", "*", "/", "x", ".", "j", "s">> /\ callArgs.path = <<"m", "y", "l", "i", "b", "/", "a", "/", "x", ".", "j", "s">>)
           => callResult = TRUE

\* C26 witness: the first piece of the pattern is not found at the start of
\* the path, it is found in the middle of the first segment, and the path
\* matches.
C26_Witness ==
    /\ MatchCallDone
    /\ IsGenericDoubleStar(callArgs.pattern)
    /\ Len(Split(callArgs.pattern, <<"*", "*">>)[1]) > 0
    /\ ~HasPrefix(callArgs.path, Split(callArgs.pattern, <<"*", "*">>)[1])
    /\ FirstCut(callArgs.path, Split(callArgs.pattern, <<"*", "*">>)[1])
         > Len(Split(callArgs.pattern, <<"*", "*">>)[1])
    /\ callArgs.path[FirstCut(callArgs.path, Split(callArgs.pattern, <<"*", "*">>)[1])
                       - Len(Split(callArgs.pattern, <<"*", "*">>)[1])] # "/"
    /\ callResult = TRUE

\* A directory on the way to the file matches the rule: as a directory (with
\* "/" appended) or by its bare path
BeneathMatchingDir(relPath, rule) ==
    \E d \in DirsOf(relPath) :
        \/ matchGitignorePattern(d, rule.pattern)
        \/ matchGitignorePattern(d \o <<"/">>, rule.pattern)

\* C29: a directory-only rule never ignores a regular file because the
\* file's own path matches its pattern: with only directory-only rules, a
\* regular file beneath no matching directory is not ignored.
C29_DirRuleSparesFiles ==
    (/\ IgnoreCallDone
     /\ ~callArgs.isDir
     /\ \A i \in 1..Len(callArgs.rules) :
           /\ callArgs.rules[i].isDir
           /\ ~BeneathMatchingDir(callArgs.relPath, callArgs.rules[i]))
    => callResult = FALSE

\* C27: every path findFilesInternal returns names a regular file beneath
\* the root, one that the walk came upon, whatever the hidden and no-ignore
\* values and the allow-list.
C27_ReturnedPathsExist ==
    FindDone => \A f \in Returned : f \in AllFiles /\ f \in visited

\* C30: for a fixed tree, ignore-file, hidden value and allow-list, the
\* result with no-ignore set contains every path of the result without it.
C30_NoIgnoreOnlyAdds ==
    (FindDone /\ root = "dir" /\ ~noIgnore) =>
        \A f \in Returned :
            \E i \in 1..Len(FindFilesResult(tree, gitignore, hidden, TRUE, supportedExts)) :
                FindFilesResult(tree, gitignore, hidden, TRUE, supportedExts)[i] = f

ExtCallDone == pc = "done" /\ callArgs.fn = "runWithFlags"

\* The user typed the extension of the file, in whatever letter case, with
\* or without the dot, as one of the entries of the flag value
TypedExtOf(extValue, path) ==
    \E i \in 1..Len(Split(extValue, <<",">>)) :
        LET typed == ToLower(TrimSpace(Split(extValue, <<",">>)[i]))
        IN  /\ Len(typed) > 0
            /\ typed # <<".">>
            /\ (IF typed[1] = "." THEN typed ELSE <<".">> \o typed) = ToLower(Ext(path))

\* C22: every entry of the allow-list made from the -ext value is lowercase
\* and begins with a dot, so a file whose extension the user typed, in any
\* letter case, passes the extension filter.
C22_ExtNormalized ==
    ExtCallDone =>
        /\ \A i \in 1..Len(callResult.supportedExts) :
              /\ HasPrefix(callResult.supportedExts[i], <<".">>)
              /\ callResult.supportedExts[i] = ToLower(callResult.supportedExts[i])
        /\ TypedExtOf(callArgs.ext, callArgs.path) => callResult.passes

\* The process-wide flags
ProcessFlags == [noIgnore |-> noIgnore, hidden |-> hidden, verbose |-> verbose]

\* Goroutine p is past the call of findFilesInternal of a findFiles call
HasWalked(p) ==
    calls[p].pc \in {"walked", "deferred"} \/ (calls[p].pc = "ready" /\ calls[p].done > 0)

\* The walk of the call read the values of the call's own flag set and
\* returned what findFilesInternal returns for them
WalkedWithOwnFlags(p) ==
    /\ calls[p].noIgnoreValue = calls[p].fs.noIgnore
    /\ calls[p].hiddenValue = calls[p].fs.hidden
    /\ calls[p].debugMode = calls[p].fs.verbose
    /\ calls[p].files = FindFilesInternalResult(root, tree, gitignore, calls[p].fs.hidden,
                                                calls[p].fs.noIgnore, supportedExts).files
    /\ calls[p].err = FindFilesInternalResult(root, tree, gitignore, calls[p].fs.hidden,
                                              calls[p].fs.noIgnore, supportedExts).err
    /\ ("Scanning directory" \in {calls[p].printed[i] : i \in 1..Len(calls[p].printed)})
         <=> (calls[p].fs.verbose /\ root = "dir"
              /\ ~FixedListCase(calls[p].fs.hidden, calls[p].fs.noIgnore, supportedExts))

\* C21: findFiles, called by one goroutine at a time, walks with the
\* no-ignore, hidden and verbose values of the flag set passed to it, and
\* whenever it has returned (walk error, empty result, write error or
\* success) the process-wide flags have the values they had before the call,
\* so the next call is not affected by the flag set of the last.
C21_FlagsAppliedAndRestored ==
    /\ HasWalked(1) => WalkedWithOwnFlags(1)
    /\ calls[1].pc = "ready" => ProcessFlags = startFlags
    /\ calls[1].pc # "ready" =>
          /\ ProcessFlags = calls[1].fs
          /\ calls[1].origNoIgnore = startFlags.noIgnore
          /\ calls[1].origHidden = startFlags.hidden
          /\ calls[1].origVerbose = startFlags.verbose

\* C21 witness: a second call in a row has returned on the write error
\* path, with a flag set that differs from the process-wide flags in all
\* three values.
C21_Witness ==
    /\ calls[1].pc = "ready"
    /\ calls[1].done = 2
    /\ calls[1].exitCode = 1
    /\ calls[1].err = "nil"
    /\ calls[1].fs.noIgnore # noIgnore
    /\ calls[1].fs.hidden # hidden
    /\ calls[1].fs.verbose # verbose

\* C28: when two goroutines call findFiles at the same time with different
\* flag sets, the walk of each reads the values of its own flag set, and
\* once both have returned the process-wide flags have the values they had
\* before either call.
C28_ConcurrentCallsIsolated ==
    /\ \A p \in Proc : HasWalked(p) => WalkedWithOwnFlags(p)
    /\ (\A p \in Proc : calls[p].pc = "ready" /\ calls[p].done > 0)
          => ProcessFlags = startFlags

====
